---- MODULE Spec2Model ----
(***************************************************************************)
(* A model of smatch/s2match.py: the S2MATCH similarity kernel, the pool   *)
(* builder, the memoized match evaluator, the MOVE/SWAP gains, the         *)
(* hill-climber and the pair drivers.                                      *)
(*                                                                         *)
(* Conventions.                                                            *)
(*  - Scores are fixed-point numbers with three decimals: 1.000 is One.    *)
(*  - A label (concept, literal) is a sequence of one-character strings.   *)
(*  - Python's None is the empty sequence << >> and a present value v is   *)
(*    <<v>> wherever the code tests "is None" or truthiness of an optional.*)
(*  - A Python list indexed from 0 is a function with domain 0..n-1; a     *)
(*    tuple key (i, j) of the code is the TLA+ tuple <<i, j>>, so key[0]   *)
(*    of the code is key[1] here.                                          *)
(*  - weight_dict[p][-1] of the code is weight_dict[p].self, the other     *)
(*    keys of weight_dict[p] are weight_dict[p].rel.                       *)
(***************************************************************************)
EXTENDS Integers, Sequences, FiniteSets, TLC

\* ------------------------------------------------------------------------
\* Arithmetic helpers
\* ------------------------------------------------------------------------

\* 1.000 in fixed point
One == 10 * 100

Min(a, b) == IF a < b THEN a ELSE b

Abs(a) == IF a < 0 THEN -a ELSE a

\* the list 0, 1, .., n-1 of Python's range(0, n)
Range(n) == 0 .. (n - 1)

\* len(l) of a Python list
PyLen(l) == Cardinality(DOMAIN l)

\* d[k] = v on a Python dict
Put(d, k, v) == [x \in DOMAIN d \cup {k} |-> IF x = k THEN v ELSE d[x]]

RECURSIVE SumFn(_, _)
\* the sum of f[k] for k in the finite set S
SumFn(S, f) ==
  IF S = {} THEN 0
  ELSE LET k == CHOOSE x \in S : TRUE IN f[k] + SumFn(S \ {k}, f)

RECURSIVE Gcd(_, _)
Gcd(a, b) == IF b = 0 THEN a ELSE Gcd(b, a % b)

\* the largest r with r * r <= n
Isqrt(n) == CHOOSE r \in 0 .. n : r * r <= n /\ (r + 1) * (r + 1) > n

\* ------------------------------------------------------------------------
\* Labels: Python strings as sequences of characters
\* ------------------------------------------------------------------------

Digits == {"0", "1", "2", "3", "4", "5", "6", "7", "8", "9"}

\* str.lower() on one character (the upper-case letters the model uses)
LowerChar(c) ==
  CASE c = "A" -> "a"
    [] c = "B" -> "b"
    [] c = "T" -> "t"
    [] c = "O" -> "o"
    [] c = "P" -> "p"
    [] OTHER -> c

\* str.lower()
Lower(w) == [k \in 1 .. Len(w) |-> LowerChar(w[k])]

\* "-" in w
HasDash(w) == \E k \in 1 .. Len(w) : w[k] = "-"

\* re.match(".*[0-9]+", w): some character of w is a digit
MatchesDigit(w) == \E k \in 1 .. Len(w) : w[k] \in Digits

\* position of the last occurrence of character c in w (0 if none)
LastIndexOf(w, c) ==
  IF \E k \in 1 .. Len(w) : w[k] = c
  THEN CHOOSE k \in 1 .. Len(w) : w[k] = c /\ \A m \in (k + 1) .. Len(w) : w[m] # c
  ELSE 0

\* "-".join(w.split("-")[:-1]): w up to, not including, its last "-"
DropLastSegment(w) == SubSeq(w, 1, LastIndexOf(w, "-") - 1)

RECURSIVE Split(_, _)
\* w.split(c): the list of segments of w between occurrences of c
Split(w, c) ==
  IF ~ \E k \in 1 .. Len(w) : w[k] = c THEN <<w>>
  ELSE LET k == CHOOSE x \in 1 .. Len(w) : w[x] = c /\ \A m \in 1 .. (x - 1) : w[m] # c
       IN <<SubSeq(w, 1, k - 1)>> \o Split(SubSeq(w, k + 1, Len(w)), c)

\* a + "_" + b, the key of the similarity cache
CacheKey(a, b) == a \o <<"_">> \o b

\* ------------------------------------------------------------------------
\* Vectors (two coordinates) and the similarity functions
\* ------------------------------------------------------------------------

VecAdd(u, v) == <<u[1] + v[1], u[2] + v[2]>>

Dot(u, v) == u[1] * v[1] + u[2] * v[2]

RECURSIVE VecSum(_)
\* np.sum(np.array(l), axis=0)
VecSum(l) == IF Len(l) = 1 THEN l[1] ELSE VecAdd(l[1], VecSum(Tail(l)))

\* the c in 0..100 with c/100 <= d/sqrt(n) < (c+1)/100, for 0 <= d*d <= n, n > 0
CosFrom(d, n) ==
  CHOOSE c \in 0 .. 100 :
    /\ c * c * n <= 100 * 100 * d * d
    /\ (c = 100 \/ (c + 1) * (c + 1) * n > 100 * 100 * d * d)

\* floor(100 * cos(u, v)) for Dot(u, v) >= 0 and non-zero u, v
CosHundredths(u, v) == CosFrom(Dot(u, v), Dot(u, u) * Dot(v, v))

\* scipy's cosine(u, v) = 1 - cos(u, v) in fixed point; <<>> is nan (a zero vector)
cosine(u, v) ==
  IF Dot(u, u) = 0 \/ Dot(v, v) = 0 THEN << >>
  ELSE IF Dot(u, v) > 0 THEN <<One - 10 * CosHundredths(u, v)>>
  ELSE <<One + 10 * CosHundredths(u, <<-v[1], -v[2]>>)>>

\* min(1, dist) of Python: the first argument unless the second is smaller (nan is not)
MinOneDist(dist) == IF dist # << >> /\ dist[1] < One THEN dist[1] ELSE One

cosine_sim(a, b) == One - MinOneDist(cosine(a, b))

\* floor(1000 * e^(-d)) for a whole distance d
ExpNeg(d) ==
  CASE d = 0 -> 1000
    [] d = 1 -> 367
    [] d = 2 -> 135
    [] d = 3 -> 49
    [] d = 4 -> 18
    [] d = 5 -> 6
    [] d = 6 -> 2
    [] OTHER -> 0

\* scipy's euclidean(u, v), rounded down to a whole number
euclidean(u, v) ==
  Isqrt((u[1] - v[1]) * (u[1] - v[1]) + (u[2] - v[2]) * (u[2] - v[2]))

euclidean_sim(a, b) == ExpNeg(euclidean(a, b))

\* scipy's cityblock(u, v)
cityblock(u, v) == Abs(u[1] - v[1]) + Abs(u[2] - v[2])

cityblock_sim(a, b) == ExpNeg(cityblock(a, b))

\* the names get_sim_fun knows; any other name yields None
SimFunNames == {"cosine", "euclidean", "cityblock"}

\* get_sim_fun: the function for a name, None (<<>>) for an unknown name
get_sim_fun(string) ==
  IF string \in SimFunNames THEN <<string>> ELSE << >>

\* simfun(a_vec, b_vec) for a simfun returned by get_sim_fun
ApplySimFun(simfun, a, b) ==
  CASE simfun = <<"cosine">> -> cosine_sim(a, b)
    [] simfun = <<"euclidean">> -> euclidean_sim(a, b)
    [] simfun = <<"cityblock">> -> cityblock_sim(a, b)

\* ------------------------------------------------------------------------
\* Similarity kernel
\* ------------------------------------------------------------------------

RECURSIVE PartsInVocab(_, _)
\* the vectors of the parts of ws that are in the vocabulary, in order
PartsInVocab(ws, vecs) ==
  IF ws = << >> THEN << >>
  ELSE (IF Head(ws) \in DOMAIN vecs THEN <<vecs[Head(ws)]>> ELSE << >>)
       \o PartsInVocab(Tail(ws), vecs)

\* "if l: v = np.sum(np.array(l), axis=0)" of maybe_get_vec
SumOfParts(l) == IF l # << >> THEN <<VecSum(l)>> ELSE << >>

maybe_get_vec(word, vecs, mwp) ==
  IF word \in DOMAIN vecs THEN <<vecs[word]>>
  ELSE IF HasDash(word) /\ mwp = "split"
       THEN SumOfParts(PartsInVocab(Split(word, "-"), vecs))
       ELSE << >>

\* a_wo_sense of maybe_sim: None, or the label without its last "-" segment
WoSense(a) ==
  IF HasDash(a) /\ MatchesDigit(a) THEN <<DropLastSegment(a)>> ELSE << >>

\* truthiness of an optional string: not None and not empty
Truthy(opt) == opt # << >> /\ opt[1] # << >>

\* the string rules without the last one, "b_wo_sense == a"
SenseRuleFiresOneSided(a, b, a_wo_sense, b_wo_sense) ==
  \/ Truthy(a_wo_sense) /\ Truthy(b_wo_sense) /\ a_wo_sense = b_wo_sense
  \/ Truthy(a_wo_sense) /\ a_wo_sense[1] = b

\* the three string rules of maybe_sim: whether one of them returns diffsense
SenseRuleFires(a, b, a_wo_sense, b_wo_sense) ==
  \/ Truthy(a_wo_sense) /\ Truthy(b_wo_sense) /\ a_wo_sense = b_wo_sense
  \/ Truthy(a_wo_sense) /\ a_wo_sense[1] = b
  \/ Truthy(b_wo_sense) /\ b_wo_sense[1] = a

\* the vector maybe_sim looks up for one label, before the +s extension
BaseVec(a, a_wo_sense, vecs, mwp) ==
  IF Truthy(a_wo_sense) THEN maybe_get_vec(a_wo_sense[1], vecs, "None")
  ELSE maybe_get_vec(a, vecs, mwp)

\* "a_vec += v" when v is not None
AddIfFound(a_vec, v) == IF v # << >> THEN VecAdd(a_vec, v[1]) ELSE a_vec

\* the vector of a label with the third-person +s extension added
ExtendedVec(a, a_wo_sense, a_vec, vecs) ==
  IF HasDash(a) /\ Truthy(a_wo_sense)
  THEN AddIfFound(a_vec, maybe_get_vec(a_wo_sense[1] \o <<"s">>, vecs, "None"))
  ELSE a_vec

\* the end of maybe_sim with the sense discount added instead of multiplied
GradedSum(sim, a_wo_sense, b_wo_sense, cutoff, diffsense) ==
  IF sim = 0 THEN 0
  ELSE IF sim > cutoff
       THEN IF Truthy(a_wo_sense) \/ Truthy(b_wo_sense)
            THEN sim + diffsense
            ELSE sim
       ELSE 0

\* the end of maybe_sim with the sense discount only when both labels have a
\* sense
GradedBothSensed(sim, a_wo_sense, b_wo_sense, cutoff, diffsense) ==
  IF sim = 0 THEN 0
  ELSE IF sim > cutoff
       THEN IF Truthy(a_wo_sense) /\ Truthy(b_wo_sense)
            THEN (sim * diffsense) \div One
            ELSE sim
       ELSE 0

\* the end of maybe_sim, from "if not sim" on
Graded(sim, a_wo_sense, b_wo_sense, cutoff, diffsense) ==
  IF sim = 0 THEN 0
  ELSE IF sim > cutoff
       THEN IF Truthy(a_wo_sense) \/ Truthy(b_wo_sense)
            THEN (sim * diffsense) \div One
            ELSE sim
       ELSE 0

\* maybe_sim from "if a_vec is None or b_vec is None" on
SimOfVecs(a, b, a_wo_sense, b_wo_sense, a_vec, b_vec, vecs, cutoff, diffsense, simfun) ==
  IF a_vec = << >> \/ b_vec = << >> THEN 0
  ELSE Graded(ApplySimFun(simfun, ExtendedVec(a, a_wo_sense, a_vec[1], vecs),
                          ExtendedVec(b, b_wo_sense, b_vec[1], vecs)),
              a_wo_sense, b_wo_sense, cutoff, diffsense)

\* maybe_sim after the identity test, with a_wo_sense and b_wo_sense computed
SimOfDifferent(a, b, a_wo_sense, b_wo_sense, vecs, cutoff, diffsense, simfun, mwp) ==
  IF SenseRuleFires(a, b, a_wo_sense, b_wo_sense) THEN diffsense
  ELSE SimOfVecs(a, b, a_wo_sense, b_wo_sense,
                 BaseVec(a, a_wo_sense, vecs, mwp), BaseVec(b, b_wo_sense, vecs, mwp),
                 vecs, cutoff, diffsense, simfun)

maybe_sim(a, b, vecs, cutoff, diffsense, simfun, mwp) ==
  IF a = b THEN One
  ELSE SimOfDifferent(a, b, WoSense(a), WoSense(b), vecs, cutoff, diffsense, simfun, mwp)

\* whether maybe_sim(a, b) reaches "sim = simfun(a_vec, b_vec)": the labels
\* differ, no string rule returns, and both vectors are found
CallsSimFun(a, b, vecs, mwp) ==
  /\ a # b
  /\ ~ SenseRuleFires(a, b, WoSense(a), WoSense(b))
  /\ BaseVec(a, WoSense(a), vecs, mwp) # << >>
  /\ BaseVec(b, WoSense(b), vecs, mwp) # << >>

\* "sim_dict[a + "_" + b] = s; sim_dict[b + "_" + a] = s; return s"
CacheStore(sim_dict, a, b, s) ==
  [s |-> s, sim_dict |-> Put(Put(sim_dict, CacheKey(a, b), s), CacheKey(b, a), s)]

\* maybe_has_sim: the score and the similarity cache after the lookup
maybe_has_sim(a, b, sim_dict, vecs, cutoff, diffsense, simfun, mwp) ==
  IF CacheKey(a, b) \in DOMAIN sim_dict
  THEN [s |-> sim_dict[CacheKey(a, b)], sim_dict |-> sim_dict]
  ELSE IF CacheKey(b, a) \in DOMAIN sim_dict
  THEN [s |-> sim_dict[CacheKey(b, a)], sim_dict |-> sim_dict]
  ELSE CacheStore(sim_dict, a, b,
                  maybe_sim(a, b, vecs, cutoff, diffsense, simfun, "split"))

\* ------------------------------------------------------------------------
\* Triples and dictionaries
\* ------------------------------------------------------------------------

\* the relation label of instance triples and of the root attribute
INSTANCE_LABEL == <<"i", "n", "s", "t">>

TOP_LABEL == <<"t", "o", "p">>

\* weight_dict[node_pair][-1] += amount, creating the entry when missing
AddSelf(weight_dict, node_pair, amount) ==
  IF node_pair \in DOMAIN weight_dict
  THEN [weight_dict EXCEPT ![node_pair].self = @ + amount]
  ELSE Put(weight_dict, node_pair, [self |-> amount, rel |-> << >>])

\* weight_dict[node_pair1][node_pair2] += 1 only from the lower node upward
AddRelUpward(weight_dict, node_pair1, node_pair2) ==
  IF node_pair1[1] > node_pair2[1] THEN weight_dict
  ELSE IF node_pair1 \in DOMAIN weight_dict
  THEN IF node_pair2 \in DOMAIN weight_dict[node_pair1].rel
       THEN [weight_dict EXCEPT ![node_pair1].rel[node_pair2] = @ + One]
       ELSE [weight_dict EXCEPT ![node_pair1].rel = Put(@, node_pair2, One)]
  ELSE Put(weight_dict, node_pair1, [self |-> 0, rel |-> Put(<< >>, node_pair2, One)])

\* weight_dict[node_pair1][node_pair2] += 1, creating what is missing
AddRel(weight_dict, node_pair1, node_pair2) ==
  IF node_pair1 \in DOMAIN weight_dict
  THEN IF node_pair2 \in DOMAIN weight_dict[node_pair1].rel
       THEN [weight_dict EXCEPT ![node_pair1].rel[node_pair2] = @ + One]
       ELSE [weight_dict EXCEPT ![node_pair1].rel = Put(@, node_pair2, One)]
  ELSE Put(weight_dict, node_pair1, [self |-> 0, rel |-> Put(<< >>, node_pair2, One)])

\* candidate_mapping[i].add(j)
AddCandidate(candidate_mapping, i, j) ==
  [candidate_mapping EXCEPT ![i] = @ \cup {j}]

\* ------------------------------------------------------------------------
\* Pool builder
\* ------------------------------------------------------------------------

\* the multiplier with the concept weighting doubling an instance similarity
WeightedDouble(similarity, weighting_scheme) ==
  IF weighting_scheme = "concept" THEN similarity * 2
  ELSE IF weighting_scheme = "structure" THEN (similarity * 3333) \div 10000
  ELSE similarity

\* the multiplier compute_pool applies to an instance similarity
Weighted(similarity, weighting_scheme) ==
  IF weighting_scheme = "concept" THEN similarity * 3
  ELSE IF weighting_scheme = "structure" THEN (similarity * 3333) \div 10000
  ELSE similarity

\* the statements of the instance loop after the call r of maybe_has_sim: the
\* candidate is added whatever the similarity is
InstanceMatch(st, t1, t2, r, weighting_scheme) ==
  [candidate_mapping |-> AddCandidate(st.candidate_mapping, t1[2], t2[2]),
   weight_dict |-> AddSelf(st.weight_dict, <<t1[2], t2[2]>>,
                           Weighted(r.s, weighting_scheme)),
   sim_dict |-> r.sim_dict]

\* one pass of the body of the instance loop of compute_pool
PoolInstanceStep(st, t1, t2, c) ==
  IF Lower(t1[1]) = Lower(t2[1])
  THEN InstanceMatch(st, t1, t2,
                     maybe_has_sim(Lower(t1[3]), Lower(t2[3]), st.sim_dict, c.vectors,
                                   c.cutoff, c.diffsense, c.simfun, c.mwp),
                     c.weighting_scheme)
  ELSE st

\* the statements of the TOP branch of the attribute loop after the call r of
\* maybe_has_sim
TopMatch(st, t1, t2, r) ==
  [candidate_mapping |-> AddCandidate(st.candidate_mapping, t1[2], t2[2]),
   weight_dict |-> AddSelf(st.weight_dict, <<t1[2], t2[2]>>, r.s),
   sim_dict |-> r.sim_dict]

\* the attribute loop with the weighting multiplier applied to the similarity
\* of two top attributes
PoolAttributeStepWeighted(st, t1, t2, c) ==
  IF Lower(t1[1]) = Lower(t2[1]) /\ Lower(t1[3]) = Lower(t2[3])
  THEN [candidate_mapping |-> AddCandidate(st.candidate_mapping, t1[2], t2[2]),
        weight_dict |-> AddSelf(st.weight_dict, <<t1[2], t2[2]>>, One),
        sim_dict |-> st.sim_dict]
  ELSE IF Lower(t1[1]) = Lower(t2[1]) /\ Lower(t2[1]) = TOP_LABEL
  THEN InstanceMatch(st, t1, t2,
                     maybe_has_sim(Lower(t1[3]), Lower(t2[3]), st.sim_dict, c.vectors,
                                   c.cutoff, c.diffsense, c.simfun, c.mwp),
                     c.weighting_scheme)
  ELSE st

\* one pass of the body of the attribute loop of compute_pool
PoolAttributeStep(st, t1, t2, c) ==
  IF Lower(t1[1]) = Lower(t2[1]) /\ Lower(t1[3]) = Lower(t2[3])
  THEN [candidate_mapping |-> AddCandidate(st.candidate_mapping, t1[2], t2[2]),
        weight_dict |-> AddSelf(st.weight_dict, <<t1[2], t2[2]>>, One),
        sim_dict |-> st.sim_dict]
  ELSE IF Lower(t1[1]) = Lower(t2[1]) /\ Lower(t2[1]) = TOP_LABEL
  THEN TopMatch(st, t1, t2,
                maybe_has_sim(Lower(t1[3]), Lower(t2[3]), st.sim_dict, c.vectors,
                              c.cutoff, c.diffsense, c.simfun, c.mwp))
  ELSE st

\* the relation loop with a pair whose two node pairs are the same stored
\* as a relation entry of the node pair with itself
PoolRelationStepLoopEntry(st, t1, t2, c) ==
  IF Lower(t1[1]) = Lower(t2[1])
  THEN [candidate_mapping |->
          AddCandidate(AddCandidate(st.candidate_mapping, t1[2], t2[2]), t1[3], t2[3]),
        weight_dict |-> AddRel(st.weight_dict, <<t1[2], t2[2]>>, <<t1[3], t2[3]>>),
        sim_dict |-> st.sim_dict]
  ELSE st

\* one pass of the body of the relation loop of compute_pool
PoolRelationStep(st, t1, t2, c) ==
  IF Lower(t1[1]) = Lower(t2[1])
  THEN IF <<t1[3], t2[3]>> # <<t1[2], t2[2]>>
       THEN [candidate_mapping |->
               AddCandidate(AddCandidate(st.candidate_mapping, t1[2], t2[2]), t1[3], t2[3]),
             weight_dict |->
               IF t1[2] > t1[3]
               THEN AddRel(AddRel(st.weight_dict, <<t1[3], t2[3]>>, <<t1[2], t2[2]>>),
                           <<t1[2], t2[2]>>, <<t1[3], t2[3]>>)
               ELSE AddRel(AddRel(st.weight_dict, <<t1[2], t2[2]>>, <<t1[3], t2[3]>>),
                           <<t1[3], t2[3]>>, <<t1[2], t2[2]>>),
             sim_dict |-> st.sim_dict]
       ELSE [candidate_mapping |->
               AddCandidate(AddCandidate(st.candidate_mapping, t1[2], t2[2]), t1[3], t2[3]),
             weight_dict |-> AddSelf(st.weight_dict, <<t1[2], t2[2]>>, One),
             sim_dict |-> st.sim_dict]
  ELSE st

RECURSIVE PoolInstanceLoop(_, _, _, _, _)
\* for i in range(len(list1)): for j in range(len(list2)), from pass k on
PoolInstanceLoop(st, list1, list2, c, k) ==
  IF PyLen(list2) = 0 \/ k >= PyLen(list1) * PyLen(list2) THEN st
  ELSE PoolInstanceLoop(PoolInstanceStep(st, list1[k \div PyLen(list2)],
                                         list2[k % PyLen(list2)], c),
                        list1, list2, c, k + 1)

RECURSIVE PoolAttributeLoop(_, _, _, _, _)
\* the attribute loop of compute_pool from pass k on
PoolAttributeLoop(st, list1, list2, c, k) ==
  IF PyLen(list2) = 0 \/ k >= PyLen(list1) * PyLen(list2) THEN st
  ELSE PoolAttributeLoop(PoolAttributeStep(st, list1[k \div PyLen(list2)],
                                           list2[k % PyLen(list2)], c),
                         list1, list2, c, k + 1)

RECURSIVE PoolRelationLoop(_, _, _, _, _)
\* the relation loop of compute_pool from pass k on
PoolRelationLoop(st, list1, list2, c, k) ==
  IF PyLen(list2) = 0 \/ k >= PyLen(list1) * PyLen(list2) THEN st
  ELSE PoolRelationLoop(PoolRelationStep(st, list1[k \div PyLen(list2)],
                                         list2[k % PyLen(list2)], c),
                        list1, list2, c, k + 1)

\* "return candidate_mapping, weight_dict"
PoolResult(st) ==
  [candidate_mapping |-> st.candidate_mapping, weight_dict |-> st.weight_dict]

\* compute_pool: (candidate_mapping, weight_dict); c carries vectors, cutoff,
\* diffsense, simfun, mwp and weighting_scheme
compute_pool(instance1, attribute1, relation1, instance2, attribute2, relation2, c) ==
  PoolResult(
    PoolRelationLoop(
      PoolAttributeLoop(
        PoolInstanceLoop([candidate_mapping |-> [i \in Range(PyLen(instance1)) |-> {}],
                          weight_dict |-> << >>,
                          sim_dict |-> << >>],
                         instance1, instance2, c, 0),
        attribute1, attribute2, c, 0),
      relation1, relation2, c, 0))

\* whether compute_pool calls simfun: some pair of instance triples, or some
\* pair of TOP attributes with different values, is given to maybe_has_sim with
\* labels on which maybe_sim reaches its call of simfun (a pair is computed the
\* first time it is looked up, sim_dict being empty at the start)
PoolCallsSimFun(instance1, attribute1, instance2, attribute2, c) ==
  \/ \E i \in DOMAIN instance1, j \in DOMAIN instance2 :
       /\ Lower(instance1[i][1]) = Lower(instance2[j][1])
       /\ CallsSimFun(Lower(instance1[i][3]), Lower(instance2[j][3]), c.vectors, "split")
  \/ \E i \in DOMAIN attribute1, j \in DOMAIN attribute2 :
       /\ Lower(attribute1[i][1]) = Lower(attribute2[j][1])
       /\ Lower(attribute2[j][1]) = TOP_LABEL
       /\ CallsSimFun(Lower(attribute1[i][3]), Lower(attribute2[j][3]), c.vectors, "split")

\* ------------------------------------------------------------------------
\* Initial mappings
\* ------------------------------------------------------------------------

\* the first element a for-loop over the set S visits: CPython iterates a set
\* of small non-negative integers in ascending order
FirstOf(S) == CHOOSE x \in S : \A y \in S : x <= y

RECURSIVE IterOrder(_)
\* the order in which a for-loop visits the set S
IterOrder(S) == IF S = {} THEN << >> ELSE <<FirstOf(S)>> \o IterOrder(S \ {FirstOf(S)})

\* the draw without the test of matched_dict: any candidate
AnyCandidate(candidates, matched_dict) ==
  IF candidates = {} THEN {<< >>} ELSE {<<j>> : j \in candidates}

\* the outcomes of a single draw: a candidate not in matched_dict, or none
SingleDraw(candidates, matched_dict) ==
  {<< >>} \cup {<<j>> : j \in candidates \ matched_dict}

\* the outcomes of the loop that draws random.randint until it hits a candidate
\* not in matched_dict: <<j>> for any such j, <<>> when the candidates run out
RandomUnmatched(candidates, matched_dict) ==
  IF candidates \ matched_dict = {} THEN {<< >>}
  ELSE {<<j>> : j \in candidates \ matched_dict}

\* the candidates of node i with the concept of node i, free or not
WordMatchesUsed(candidate_mapping, instance1, instance2, i, matched_dict) ==
  {n \in candidate_mapping[i] : instance2[n][3] = instance1[i][3]}

\* the candidates of node i with the concept of node i that are still free
WordMatches(candidate_mapping, instance1, instance2, i, matched_dict) ==
  {n \in candidate_mapping[i] : instance2[n][3] = instance1[i][3] /\ n \notin matched_dict}

\* the body of the first loop of smart_init_mapping for a node i with
\* candidates, given the free candidates hits with the same concept
SmartPick(acc, i, hits) ==
  IF hits # {}
  THEN [acc EXCEPT !.result = Put(@, i, FirstOf(hits)),
                   !.matched_dict = @ \cup {FirstOf(hits)}]
  ELSE [acc EXCEPT !.result = Put(@, i, -1),
                   !.no_word_match = Append(@, i)]

RECURSIVE SmartFirstPass(_, _, _, _, _)
\* the first loop of smart_init_mapping from node i on; acc holds result,
\* matched_dict and no_word_match
SmartFirstPass(candidate_mapping, instance1, instance2, i, acc) ==
  IF i >= PyLen(candidate_mapping) THEN acc
  ELSE IF candidate_mapping[i] = {}
  THEN SmartFirstPass(candidate_mapping, instance1, instance2, i + 1,
                      [acc EXCEPT !.result = Put(@, i, -1)])
  ELSE SmartFirstPass(candidate_mapping, instance1, instance2, i + 1,
                      SmartPick(acc, i, WordMatches(candidate_mapping, instance1,
                                                    instance2, i, acc.matched_dict)))

RECURSIVE SmartSecondPass(_, _, _, _)
\* the second loop of smart_init_mapping: every result the random draws allow
SmartSecondPass(candidate_mapping, no_word_match, result, matched_dict) ==
  IF no_word_match = << >> THEN {result}
  ELSE UNION {
         IF pick = << >>
         THEN SmartSecondPass(candidate_mapping, Tail(no_word_match), result, matched_dict)
         ELSE SmartSecondPass(candidate_mapping, Tail(no_word_match),
                              [result EXCEPT ![Head(no_word_match)] = pick[1]],
                              matched_dict \cup {pick[1]})
         : pick \in RandomUnmatched(candidate_mapping[Head(no_word_match)], matched_dict)}

\* the second loop of smart_init_mapping on what the first loop left in acc
SmartFinish(candidate_mapping, acc) ==
  SmartSecondPass(candidate_mapping, acc.no_word_match, acc.result, acc.matched_dict)

\* smart_init_mapping: the set of mappings it can return
smart_init_mapping(candidate_mapping, instance1, instance2) ==
  SmartFinish(candidate_mapping,
              SmartFirstPass(candidate_mapping, instance1, instance2, 0,
                             [result |-> << >>, matched_dict |-> {},
                              no_word_match |-> << >>]))

RECURSIVE RandomInitLoop(_, _, _, _)
\* the loop of random_init_mapping from node i on: every result the draws allow
RandomInitLoop(candidate_mapping, i, result, matched_dict) ==
  IF i >= PyLen(candidate_mapping) THEN {result}
  ELSE UNION {
         IF pick = << >>
         THEN RandomInitLoop(candidate_mapping, i + 1, Put(result, i, -1), matched_dict)
         ELSE RandomInitLoop(candidate_mapping, i + 1, Put(result, i, pick[1]),
                             matched_dict \cup {pick[1]})
         : pick \in RandomUnmatched(candidate_mapping[i], matched_dict)}

\* random_init_mapping: the set of mappings it can return
random_init_mapping(candidate_mapping) ==
  RandomInitLoop(candidate_mapping, 0, << >>, {})

\* ------------------------------------------------------------------------
\* Match evaluator and neighbor gains (memo is match_triple_dict)
\* ------------------------------------------------------------------------

\* the body of the loop of compute_match without the skip of the lower half
NodeMatchBothHalves(i, mapping, weight_dict) ==
  IF mapping[i] = -1 \/ <<i, mapping[i]>> \notin DOMAIN weight_dict THEN 0
  ELSE weight_dict[<<i, mapping[i]>>].self
       + SumFn({key \in DOMAIN weight_dict[<<i, mapping[i]>>].rel :
                  mapping[key[1]] = key[2]},
               weight_dict[<<i, mapping[i]>>].rel)

\* the body of the loop of compute_match for node i: the self score, and the
\* relation entries whose first node is not below i and that hold in mapping
NodeMatch(i, mapping, weight_dict) ==
  IF mapping[i] = -1 \/ <<i, mapping[i]>> \notin DOMAIN weight_dict THEN 0
  ELSE weight_dict[<<i, mapping[i]>>].self
       + SumFn({key \in DOMAIN weight_dict[<<i, mapping[i]>>].rel :
                  ~ (key[1] < i) /\ mapping[key[1]] = key[2]},
               weight_dict[<<i, mapping[i]>>].rel)

\* "match_triple_dict[tuple(mapping)] = match_num; return match_num"
StoreMatch(memo, mapping, match_num) ==
  [match_num |-> match_num, memo |-> Put(memo, mapping, match_num), hit |-> FALSE]

\* compute_match: the match number, the memo after the call, and whether the
\* memo answered
compute_match(mapping, weight_dict, memo) ==
  IF mapping \in DOMAIN memo
  THEN [match_num |-> memo[mapping], memo |-> memo, hit |-> TRUE]
  ELSE StoreMatch(memo, mapping,
                  SumFn(DOMAIN mapping,
                        [i \in DOMAIN mapping |-> NodeMatch(i, mapping, weight_dict)]))

\* the loop over weight_dict[pair] without the skip of the entries of node_id1
PairScoreNoSkip(pair, mapping_list, weight_dict, skip) ==
  IF pair \in DOMAIN weight_dict
  THEN weight_dict[pair].self
       + SumFn({key \in DOMAIN weight_dict[pair].rel : mapping_list[key[1]] = key[2]},
               weight_dict[pair].rel)
  ELSE 0

\* the loop "for key in weight_dict[pair]" of move_gain and swap_gain: the self
\* score of pair plus every relation entry that holds in mapping_list, skipping
\* the entries whose first node is in skip
PairScore(pair, mapping_list, weight_dict, skip) ==
  IF pair \in DOMAIN weight_dict
  THEN weight_dict[pair].self
       + SumFn({key \in DOMAIN weight_dict[pair].rel :
                  key[1] \notin skip /\ mapping_list[key[1]] = key[2]},
               weight_dict[pair].rel)
  ELSE 0

\* "match_triple_dict[tuple(new_mapping_list)] = match_num + gain; return gain"
StoreGain(memo, new_mapping_list, match_num, gain) ==
  [gain |-> gain, memo |-> Put(memo, new_mapping_list, match_num + gain), hit |-> FALSE]

\* move_gain when the memo has new_mapping_list: the difference is returned
MemoGain(memo, new_mapping_list, match_num) ==
  [gain |-> memo[new_mapping_list] - match_num, memo |-> memo, hit |-> TRUE]

\* new_mapping_list of move_gain
Moved(mapping, node_id, new_id) == [mapping EXCEPT ![node_id] = new_id]

\* move_gain without the lookup: the gain is computed and stored every time
move_gain_no_lookup(mapping, node_id, old_id, new_id, weight_dict, match_num, memo) ==
  StoreGain(memo, Moved(mapping, node_id, new_id), match_num,
            PairScore(<<node_id, new_id>>, Moved(mapping, node_id, new_id),
                      weight_dict, {})
            - PairScore(<<node_id, old_id>>, mapping, weight_dict, {}))

\* move_gain: the gain, the memo after the call, and whether the memo answered
move_gain(mapping, node_id, old_id, new_id, weight_dict, match_num, memo) ==
  IF Moved(mapping, node_id, new_id) \in DOMAIN memo
  THEN MemoGain(memo, Moved(mapping, node_id, new_id), match_num)
  ELSE StoreGain(memo, Moved(mapping, node_id, new_id), match_num,
                 PairScore(<<node_id, new_id>>, Moved(mapping, node_id, new_id),
                           weight_dict, {})
                 - PairScore(<<node_id, old_id>>, mapping, weight_dict, {}))

\* new_mapping_list of swap_gain
Swapped(mapping, node_id1, mapping_id1, node_id2, mapping_id2) ==
  [mapping EXCEPT ![node_id1] = mapping_id2, ![node_id2] = mapping_id1]

\* the four loops of swap_gain over new_mapping1, new_mapping2, old_mapping1
\* and old_mapping2
SwapSum(mapping, new_mapping_list, new_mapping1, new_mapping2, old_mapping1, old_mapping2, node_id1, weight_dict) ==
  PairScore(new_mapping1, new_mapping_list, weight_dict, {})
  + PairScore(new_mapping2, new_mapping_list, weight_dict, {node_id1})
  - PairScore(old_mapping1, mapping, weight_dict, {})
  - PairScore(old_mapping2, mapping, weight_dict, {node_id1})

\* swap_gain: the gain, the memo after the call, and whether the memo answered
swap_gain(mapping, node_id1, mapping_id1, node_id2, mapping_id2, weight_dict, match_num, memo) ==
  IF Swapped(mapping, node_id1, mapping_id1, node_id2, mapping_id2) \in DOMAIN memo
  THEN MemoGain(memo, Swapped(mapping, node_id1, mapping_id1, node_id2, mapping_id2),
                match_num)
  ELSE StoreGain(memo, Swapped(mapping, node_id1, mapping_id1, node_id2, mapping_id2),
                 match_num,
                 IF node_id1 > node_id2
                 THEN SwapSum(mapping,
                              Swapped(mapping, node_id1, mapping_id1, node_id2, mapping_id2),
                              <<node_id2, mapping_id1>>, <<node_id1, mapping_id2>>,
                              <<node_id2, mapping_id2>>, <<node_id1, mapping_id1>>,
                              node_id1, weight_dict)
                 ELSE SwapSum(mapping,
                              Swapped(mapping, node_id1, mapping_id1, node_id2, mapping_id2),
                              <<node_id1, mapping_id2>>, <<node_id2, mapping_id1>>,
                              <<node_id1, mapping_id1>>, <<node_id2, mapping_id2>>,
                              node_id1, weight_dict))

\* ------------------------------------------------------------------------
\* Hill-climbing step
\* ------------------------------------------------------------------------

\* gain <= 0.0000000001 stops a restart; in fixed point that is gain <= 0
GainThreshold == 0

\* the nodes of AMR 2 that no node of mapping maps to
Unmatched(mapping, instance_len) ==
  Range(instance_len) \ {mapping[i] : i \in DOMAIN mapping}

\* the pairs (i, nm) for the nodes nms, in order
WithNode(i, nms) == [k \in 1 .. Len(nms) |-> <<i, nms[k]>>]

\* the move loop over the first node of AMR 1 only
MoveListFirstNode(mapping, candidate_mappings, instance_len, i) ==
  IF i >= PyLen(mapping) \/ i > 0 THEN << >>
  ELSE WithNode(i, IterOrder(Unmatched(mapping, instance_len) \cap candidate_mappings[i]))

RECURSIVE MoveList(_, _, _, _)
\* the (i, nm) for which get_best_gain calls move_gain, in the order of its loops
MoveList(mapping, candidate_mappings, instance_len, i) ==
  IF i >= PyLen(mapping) THEN << >>
  ELSE WithNode(i, IterOrder(Unmatched(mapping, instance_len) \cap candidate_mappings[i]))
       \o MoveList(mapping, candidate_mappings, instance_len, i + 1)

RECURSIVE SwapList(_, _, _)
\* the (i, j) for which get_best_gain calls swap_gain, in the order of its loops
SwapList(n, i, j) ==
  IF i >= n THEN << >>
  ELSE IF j >= n THEN SwapList(n, i + 1, i + 2)
  ELSE <<<<i, j>>>> \o SwapList(n, i, j + 1)

\* what get_best_gain does with the result r of a call of move_gain or
\* swap_gain: "if gain > largest_gain" keep it; the memo of the call, and a
\* record of the entry the call wrote (written by `by` from mapping `from`)
KeepLargest(st, r, n1, n2, swap, by, from, key) ==
  [largest_gain |-> IF r.gain > st.largest_gain THEN r.gain ELSE st.largest_gain,
   node1 |-> IF r.gain > st.largest_gain THEN <<n1>> ELSE st.node1,
   node2 |-> IF r.gain > st.largest_gain THEN <<n2>> ELSE st.node2,
   use_swap |-> IF r.gain > st.largest_gain THEN swap ELSE st.use_swap,
   memo |-> r.memo,
   log |-> IF r.hit THEN st.log
           ELSE st.log \cup {[by |-> by, from |-> from, key |-> key]}]

RECURSIVE MoveLoop(_, _, _, _, _, _)
\* the move loop of get_best_gain from the k-th call on
MoveLoop(moves, k, mapping, weight_dict, cur_match_num, st) ==
  IF k > Len(moves) THEN st
  ELSE MoveLoop(moves, k + 1, mapping, weight_dict, cur_match_num,
                KeepLargest(st,
                            move_gain(mapping, moves[k][1], mapping[moves[k][1]],
                                      moves[k][2], weight_dict, cur_match_num, st.memo),
                            moves[k][1], moves[k][2], FALSE, "move_gain", mapping,
                            Moved(mapping, moves[k][1], moves[k][2])))

RECURSIVE SwapLoop(_, _, _, _, _, _)
\* the swap loop of get_best_gain from the k-th call on
SwapLoop(swaps, k, mapping, weight_dict, cur_match_num, st) ==
  IF k > Len(swaps) THEN st
  ELSE SwapLoop(swaps, k + 1, mapping, weight_dict, cur_match_num,
                KeepLargest(st,
                            swap_gain(mapping, swaps[k][1], mapping[swaps[k][1]],
                                      swaps[k][2], mapping[swaps[k][2]], weight_dict,
                                      cur_match_num, st.memo),
                            swaps[k][1], swaps[k][2], TRUE, "swap_gain", mapping,
                            Swapped(mapping, swaps[k][1], mapping[swaps[k][1]],
                                    swaps[k][2], mapping[swaps[k][2]])))

\* the new mapping get_best_gain builds from node1, node2 and use_swap
ApplyBest(mapping, st) ==
  IF st.node1 # << >>
  THEN IF st.use_swap
       THEN [mapping EXCEPT ![st.node1[1]] = mapping[st.node2[1]],
                            ![st.node2[1]] = mapping[st.node1[1]]]
       ELSE [mapping EXCEPT ![st.node1[1]] = st.node2[1]]
  ELSE mapping

\* "return largest_gain, cur_mapping", with the memo and the record of writes
BestResult(mapping, st) ==
  [largest_gain |-> st.largest_gain, cur_mapping |-> ApplyBest(mapping, st),
   memo |-> st.memo, log |-> st.log, use_swap |-> st.use_swap, node1 |-> st.node1]

\* get_best_gain: largest_gain, the new mapping, the memo after the call, and
\* (for the record) the memo entries its move_gain and swap_gain calls wrote
get_best_gain(mapping, candidate_mappings, weight_dict, instance_len, cur_match_num, memo) ==
  BestResult(mapping,
             SwapLoop(SwapList(PyLen(mapping), 0, 1), 1, mapping, weight_dict,
                      cur_match_num,
                      MoveLoop(MoveList(mapping, candidate_mappings, instance_len, 0), 1,
                               mapping, weight_dict, cur_match_num,
                               [largest_gain |-> 0, node1 |-> << >>, node2 |-> << >>,
                                use_swap |-> TRUE, memo |-> memo, log |-> {}])))

\* ------------------------------------------------------------------------
\* Scoring
\* ------------------------------------------------------------------------

\* num/den (den > 0) divided through by the common divisor g
Reduced(num, den, g) == [num |-> num \div g, den |-> den \div g]

\* a fraction num/den (den > 0) in lowest terms
Frac(num, den) == Reduced(num, den, Gcd(Abs(num), den))

FracAdd(x, y) == Frac(x.num * y.den + y.num * x.den, x.den * y.den)

\* x * y, with the common divisors g1 of x.num and y.den and g2 of y.num and
\* x.den taken out before the products
CrossMul(x, y, g1, g2) ==
  Frac((x.num \div g1) * (y.num \div g2), (x.den \div g2) * (y.den \div g1))

FracMul(x, y) == CrossMul(x, y, Gcd(Abs(x.num), y.den), Gcd(Abs(y.num), x.den))

\* x / y for y > 0
FracDiv(x, y) == FracMul(x, [num |-> y.den, den |-> y.num])

FracZero == [num |-> 0, den |-> 1]

\* the end of compute_f with the arithmetic mean of precision and recall
FScoreMean(precision, recall) ==
  IF FracAdd(precision, recall).num # 0
  THEN [precision |-> precision, recall |-> recall,
        f_score |-> FracMul([num |-> 1, den |-> 2], FracAdd(precision, recall))]
  ELSE [precision |-> precision, recall |-> recall, f_score |-> FracZero]

\* the end of compute_f: 2 * precision * recall / (precision + recall), or 0.00
FScore(precision, recall) ==
  IF FracAdd(precision, recall).num # 0
  THEN [precision |-> precision, recall |-> recall,
        f_score |-> FracDiv(FracMul([num |-> 2, den |-> 1], FracMul(precision, recall)),
                            FracAdd(precision, recall))]
  ELSE [precision |-> precision, recall |-> recall, f_score |-> FracZero]

\* compute_f: precision, recall and f_score as exact fractions; match_num is
\* in fixed point, test_num and gold_num are counts
compute_f(match_num, test_num, gold_num) ==
  IF test_num = 0 \/ gold_num = 0
  THEN [precision |-> FracZero, recall |-> FracZero, f_score |-> FracZero]
  ELSE FScore(Frac(match_num, test_num * One), Frac(match_num, gold_num * One))

\* ------------------------------------------------------------------------
\* State
\* ------------------------------------------------------------------------

VARIABLES
  match_triple_dict,  \* the module's memo: mapping -> match number
  iteration_num,      \* the module's iteration_num
  single_score,       \* the module's single_score switch
  pr_flag,            \* the module's pr_flag switch
  args,               \* vectors, cutoff, diffsense, simfun, mwp, weighting_scheme
  fr,                 \* the running calls of get_best_match, by caller
  drv,                \* the driver (main or compute_s2match_from_two_lists)
  sim                 \* the similarity kernel under test: inputs and result

vars == <<match_triple_dict, iteration_num, single_score, pr_flag, args, fr, drv, sim>>

\* ------------------------------------------------------------------------
\* get_best_match, one call per caller t
\* ------------------------------------------------------------------------

WeightingSchemes == {"concept", "structure", "standard"}

\* the locals of a call of get_best_match that has not started
NewCall(g1, g2) ==
  [pc |-> "pool",
   instance1 |-> g1.instance, attribute1 |-> g1.attribute, relation1 |-> g1.relation,
   instance2 |-> g2.instance, attribute2 |-> g2.attribute, relation2 |-> g2.relation,
   candidate_mappings |-> << >>, weight_dict |-> << >>,
   i |-> 0, cur_mapping |-> << >>, match_num |-> 0,
   best_mapping |-> << >>, best_match_num |-> 0,
   gain |-> 0, steps |-> 0, log |-> {}]

\* the locals of get_best_match after compute_pool returned p
Pooled(f, p) ==
  [f EXCEPT !.pc = "init",
            !.candidate_mappings = p.candidate_mapping,
            !.weight_dict = p.weight_dict,
            !.best_match_num = 0,
            !.best_mapping = [k \in Range(PyLen(f.instance1)) |-> -1],
            !.i = 0]

\* get_best_match up to the restart loop: the assertion, compute_pool, and
\* the initial best_match_num and best_mapping; a simfun of None raises
\* TypeError at its first call inside compute_pool
ComputePool(t) ==
  /\ fr[t].pc = "pool"
  /\ IF args.weighting_scheme \notin WeightingSchemes
     THEN fr' = [fr EXCEPT ![t].pc = "AssertionError"]
     ELSE IF /\ args.simfun = << >>
             /\ PoolCallsSimFun(fr[t].instance1, fr[t].attribute1,
                                fr[t].instance2, fr[t].attribute2, args)
     THEN fr' = [fr EXCEPT ![t].pc = "TypeError"]
     ELSE fr' = [fr EXCEPT ![t] =
                   Pooled(@, compute_pool(@.instance1, @.attribute1, @.relation1,
                                          @.instance2, @.attribute2, @.relation2, args))]
  /\ UNCHANGED <<match_triple_dict, iteration_num, single_score, pr_flag, args, drv, sim>>

\* the locals of get_best_match after compute_match returned r on cur_mapping
Started(f, cur_mapping, r) ==
  [f EXCEPT !.pc = "climb",
            !.cur_mapping = cur_mapping,
            !.match_num = r.match_num,
            !.gain = 0,
            !.steps = 0,
            !.log = IF r.hit THEN @
                    ELSE @ \cup {[by |-> "compute_match", from |-> cur_mapping,
                                  key |-> cur_mapping]}]

\* the start of a restart: the initial mapping and compute_match on it
StartRestart(t, mappings) ==
  /\ fr[t].pc = "init"
  /\ fr[t].i < iteration_num
  /\ \E cur_mapping \in mappings :
       /\ match_triple_dict' =
            compute_match(cur_mapping, fr[t].weight_dict, match_triple_dict).memo
       /\ fr' = [fr EXCEPT ![t] =
                   Started(@, cur_mapping,
                           compute_match(cur_mapping, @.weight_dict, match_triple_dict))]
  /\ UNCHANGED <<iteration_num, single_score, pr_flag, args, drv, sim>>

\* restart 0: smart initialization
SmartStart(t) ==
  /\ fr[t].i = 0
  /\ StartRestart(t, smart_init_mapping(fr[t].candidate_mappings,
                                        fr[t].instance1, fr[t].instance2))

\* the other restarts: random initialization
RandomStart(t) ==
  /\ fr[t].i # 0
  /\ StartRestart(t, random_init_mapping(fr[t].candidate_mappings))

\* the call of get_best_gain of one pass of the while loop
BestGain(f, memo) ==
  get_best_gain(f.cur_mapping, f.candidate_mappings, f.weight_dict,
                PyLen(f.instance2), f.match_num, memo)

\* a loop that never breaks
AlwaysImproves(gain) == TRUE

\* a loop that breaks only on a loss
ImprovesOrTies(gain) == ~ (gain < GainThreshold)

\* the negation of "if gain <= 0.0000000001: break"
Improves(gain) == ~ (gain <= GainThreshold)

\* a pass of the while loop that takes the new mapping and leaves match_num
ClimbedMappingOnly(f, g) ==
  [f EXCEPT !.cur_mapping = g.cur_mapping,
            !.gain = g.largest_gain,
            !.steps = @ + 1,
            !.log = @ \cup g.log]

\* the locals of get_best_match after a pass of the while loop that did not
\* break on the result g of get_best_gain
Climbed(f, g) ==
  [f EXCEPT !.match_num = @ + g.largest_gain,
            !.cur_mapping = g.cur_mapping,
            !.gain = g.largest_gain,
            !.steps = @ + 1,
            !.log = @ \cup g.log]

\* the end of a restart with the best mapping replaced on a tie as well
StoppedOnTies(f, g) ==
  [f EXCEPT !.pc = "init",
            !.log = @ \cup g.log,
            !.best_mapping = IF f.match_num >= f.best_match_num THEN f.cur_mapping ELSE @,
            !.best_match_num = IF f.match_num >= f.best_match_num THEN f.match_num ELSE @,
            !.i = @ + 1]

\* the locals of get_best_match after the pass of the while loop that broke on
\* the result g of get_best_gain, and the update of the best mapping
Stopped(f, g) ==
  [f EXCEPT !.pc = "init",
            !.log = @ \cup g.log,
            !.best_mapping = IF f.match_num > f.best_match_num THEN f.cur_mapping ELSE @,
            !.best_match_num = IF f.match_num > f.best_match_num THEN f.match_num ELSE @,
            !.i = @ + 1]

\* one pass of the while loop that finds a gain: the step is applied
ClimbStep(t) ==
  /\ fr[t].pc = "climb"
  /\ Improves(BestGain(fr[t], match_triple_dict).largest_gain)
  /\ match_triple_dict' = BestGain(fr[t], match_triple_dict).memo
  /\ fr' = [fr EXCEPT ![t] = Climbed(@, BestGain(@, match_triple_dict))]
  /\ UNCHANGED <<iteration_num, single_score, pr_flag, args, drv, sim>>

\* the pass of the while loop that finds no gain: break, then the update of
\* best_mapping and best_match_num, and the next restart
ClimbStop(t) ==
  /\ fr[t].pc = "climb"
  /\ ~ Improves(BestGain(fr[t], match_triple_dict).largest_gain)
  /\ match_triple_dict' = BestGain(fr[t], match_triple_dict).memo
  /\ fr' = [fr EXCEPT ![t] = Stopped(@, BestGain(@, match_triple_dict))]
  /\ UNCHANGED <<iteration_num, single_score, pr_flag, args, drv, sim>>

\* the restart loop is over: return best_mapping, best_match_num
Return(t) ==
  /\ fr[t].pc = "init"
  /\ ~ (fr[t].i < iteration_num)
  /\ fr' = [fr EXCEPT ![t].pc = "done"]
  /\ UNCHANGED <<match_triple_dict, iteration_num, single_score, pr_flag, args, drv, sim>>

\* ------------------------------------------------------------------------
\* Inputs
\* ------------------------------------------------------------------------

\* the largest number of nodes of an input graph
MaxNodes == 2

\* the largest number of relation triples of an input graph
MaxRelations == 1

\* the restarts after the smart start (option -r)
MaxRestarts == 1

\* the largest number of AMRs in an input stream of a driver
MaxPairs == 3

\* the largest length of a label given to the similarity kernel
MaxLen == 3

\* the word vectors of the runs: a and b are in the vocabulary, c is not
Vocab == (<<"a">> :> <<1, 0>>) @@ (<<"b">> :> <<3, 4>>)

\* word vectors with opposed directions
OpposedVocab == (<<"a">> :> <<1, 0>>) @@ (<<"b">> :> <<-1, 0>>)

\* the concept labels of the input graphs
ConceptLabels == {<<"a">>, <<"b">>, <<"c">>}

REL_LABEL == <<"r">>

\* the relation lists of a graph of n nodes
RelationLists(n) ==
  UNION {[Range(k) -> {<<REL_LABEL, s, t>> : s \in Range(n), t \in Range(n)}] :
           k \in 0 .. MaxRelations}

\* the renamed graphs of n nodes: node i is the i-th instance triple, and the
\* root (node 0) carries the TOP attribute with its concept
GraphsOfSize(n) ==
  {[instance |-> [i \in Range(n) |-> <<INSTANCE_LABEL, i, cs[i]>>],
    attribute |-> [i \in Range(Min(n, 1)) |-> <<<<"T", "O", "P">>, 0, cs[0]>>],
    relation |-> rl] :
     cs \in [Range(n) -> ConceptLabels], rl \in RelationLists(n)}

Graphs == UNION {GraphsOfSize(n) : n \in 0 .. MaxNodes}

\* the graphs the drivers and the interleaved callers are run on: one or two
\* nodes with the concepts a and c, no relations
SmallGraphs ==
  {g \in Graphs : /\ g.relation = << >>
                  /\ PyLen(g.instance) >= 1
                  /\ \A i \in DOMAIN g.instance : g.instance[i][3] \in {<<"a">>, <<"c">>}}

\* the defaults of build_arg_parser, with a weighting scheme
DefaultArgs(weighting_scheme) ==
  [vectors |-> Vocab, cutoff |-> One \div 2, diffsense |-> One \div 2,
   simfun |-> get_sim_fun("cosine"), mwp |-> "split",
   weighting_scheme |-> weighting_scheme]

\* the injective partial mappings of n1 nodes into n2 nodes
Mappings(n1, n2) ==
  {m \in [Range(n1) -> Range(n2) \cup {-1}] :
     \A i, j \in Range(n1) : i # j /\ m[i] # -1 => m[i] # m[j]}

\* the strings of at most n characters over the alphabet S
Strings(S, n) == UNION {[1 .. k -> S] : k \in 0 .. n}

NoDriver == [kind |-> "none"]

NoSim == [pc |-> "off"]

\* ------------------------------------------------------------------------
\* Spec: one call of get_best_match on a pair of graphs
\* ------------------------------------------------------------------------

Init ==
  /\ match_triple_dict = << >>
  /\ iteration_num = MaxRestarts + 1
  /\ single_score = TRUE
  /\ pr_flag = FALSE
  /\ \E ws \in WeightingSchemes : args = DefaultArgs(ws)
  /\ \E g1 \in Graphs, g2 \in Graphs : fr = (1 :> NewCall(g1, g2))
  /\ drv = NoDriver
  /\ sim = NoSim

Next ==
  \/ \E t \in DOMAIN fr : ComputePool(t)
  \/ \E t \in DOMAIN fr : SmartStart(t)
  \/ \E t \in DOMAIN fr : RandomStart(t)
  \/ \E t \in DOMAIN fr : ClimbStep(t)
  \/ \E t \in DOMAIN fr : ClimbStop(t)
  \/ \E t \in DOMAIN fr : Return(t)

Spec == Init /\ [][Next]_vars

\* ------------------------------------------------------------------------
\* SpecGain: get_best_gain, move_gain and swap_gain from any injective
\* current mapping, with the memo holding the score of that mapping
\* ------------------------------------------------------------------------

\* a call of get_best_match whose first restart is to start at mapping m
CallAt(g1, g2, m) == [NewCall(g1, g2) EXCEPT !.cur_mapping = m]

InitGain ==
  /\ match_triple_dict = << >>
  /\ iteration_num = MaxRestarts + 1
  /\ single_score = TRUE
  /\ pr_flag = FALSE
  /\ \E ws \in WeightingSchemes : args = DefaultArgs(ws)
  /\ \E g1 \in Graphs, g2 \in Graphs :
       \E m \in Mappings(PyLen(g1.instance), PyLen(g2.instance)) :
         fr = (1 :> CallAt(g1, g2, m))
  /\ drv = NoDriver
  /\ sim = NoSim

\* restart 0 of get_best_match with the given mapping as its initial mapping
StartAt(t) ==
  /\ fr[t].i = 0
  /\ StartRestart(t, {fr[t].cur_mapping})

NextGain ==
  \/ \E t \in DOMAIN fr : ComputePool(t)
  \/ \E t \in DOMAIN fr : StartAt(t)
  \/ \E t \in DOMAIN fr : ClimbStep(t)
  \/ \E t \in DOMAIN fr : ClimbStop(t)

SpecGain == InitGain /\ [][NextGain]_vars

\* ------------------------------------------------------------------------
\* SpecConc: two calls of get_best_match interleaved in one process
\* ------------------------------------------------------------------------

InitConc ==
  /\ match_triple_dict = << >>
  /\ iteration_num = MaxRestarts + 1
  /\ single_score = TRUE
  /\ pr_flag = FALSE
  /\ args = DefaultArgs("standard")
  /\ \E g1 \in SmallGraphs, g2 \in GraphsOfSize(1) \cap SmallGraphs,
        h1 \in SmallGraphs, h2 \in GraphsOfSize(1) \cap SmallGraphs :
       fr = (1 :> NewCall(g1, g2)) @@ (2 :> NewCall(h1, h2))
  /\ drv = NoDriver
  /\ sim = NoSim

SpecConc == InitConc /\ [][Next]_vars

\* ------------------------------------------------------------------------
\* SpecSim: maybe_sim on a pair of labels
\* ------------------------------------------------------------------------

\* the characters of the labels: letters, the sense separator and a digit
LabelChars == {"a", "b", "-", "1"}

InitSim ==
  /\ match_triple_dict = << >>
  /\ iteration_num = MaxRestarts + 1
  /\ single_score = TRUE
  /\ pr_flag = FALSE
  /\ args = DefaultArgs("standard")
  /\ fr = << >>
  /\ drv = NoDriver
  /\ \E a \in Strings(LabelChars, MaxLen), b \in Strings(LabelChars, MaxLen),
        vecs \in {Vocab, OpposedVocab}, name \in SimFunNames, mwp \in {"split", "None"},
        c \in {[cutoff |-> 0, diffsense |-> One], [cutoff |-> One \div 2, diffsense |-> One \div 2]} :
       sim = [pc |-> "in", a |-> a, b |-> b, vecs |-> vecs, cutoff |-> c.cutoff,
              diffsense |-> c.diffsense, simfun |-> get_sim_fun(name), mwp |-> mwp,
              result |-> 0]

\* a call of maybe_sim
MaybeSim ==
  /\ sim.pc = "in"
  /\ sim' = [sim EXCEPT !.pc = "out",
                        !.result = maybe_sim(sim.a, sim.b, sim.vecs, sim.cutoff,
                                             sim.diffsense, sim.simfun, sim.mwp)]
  /\ UNCHANGED <<match_triple_dict, iteration_num, single_score, pr_flag, args, fr, drv>>

NextSim == MaybeSim

SpecSim == InitSim /\ [][NextSim]_vars

\* ------------------------------------------------------------------------
\* SpecPool: compute_pool on graphs with up to two relation triples and two
\* relation labels
\* ------------------------------------------------------------------------

\* the largest number of relation triples of a graph given to the pool builder
MaxPoolRelations == 2

\* the relation labels of the graphs given to the pool builder
PoolLabels == {<<"r">>, <<"q">>}

\* the graphs given to the pool builder: one or two nodes with the concepts a
\* and c, the root with its TOP attribute
PoolGraphsOfSize(n) ==
  {[instance |-> [i \in Range(n) |-> <<INSTANCE_LABEL, i, cs[i]>>],
    attribute |-> [i \in Range(1) |-> <<<<"T", "O", "P">>, 0, cs[0]>>],
    relation |-> rl] :
     cs \in [Range(n) -> {<<"a">>, <<"c">>}],
     rl \in UNION {[Range(k) -> {<<l, s, t>> : l \in PoolLabels, s \in Range(n),
                                              t \in Range(n)}] :
                     k \in 0 .. MaxPoolRelations}}

PoolGraphs == PoolGraphsOfSize(1) \cup PoolGraphsOfSize(2)

InitPool ==
  /\ match_triple_dict = << >>
  /\ iteration_num = MaxRestarts + 1
  /\ single_score = TRUE
  /\ pr_flag = FALSE
  /\ args = DefaultArgs("standard")
  /\ \E g1 \in PoolGraphs, g2 \in PoolGraphs : fr = (1 :> NewCall(g1, g2))
  /\ drv = NoDriver
  /\ sim = NoSim

NextPool == \E t \in DOMAIN fr : ComputePool(t)

SpecPool == InitPool /\ [][NextPool]_vars

\* ------------------------------------------------------------------------
\* The drivers: main and compute_s2match_from_two_lists
\* ------------------------------------------------------------------------

\* the module's initial iteration_num
IterationNumDefault == 5

\* the iteration_num compute_s2match_from_two_lists sets
ListsIterationNum == 5

\* the files of word vectors: a path that is not listed cannot be opened; a
\* line is a word followed by the numbers of its vector
VectorFiles == ("glove.txt" :> <<<<<<"a">>, 1, 0>>, <<<<"b">>, 3, 4>>>>)

RECURSIVE LoadLines(_, _)
\* "for line in f": dic[word] = vec, line after line
LoadLines(lines, dic) ==
  IF lines = << >> THEN dic
  ELSE LoadLines(Tail(lines), Put(dic, Head(lines)[1], Tail(Head(lines))))

\* load_vecs: the empty dictionary for an empty path, the exception of open()
\* for a path that cannot be opened, the dictionary of the file otherwise
load_vecs(fp) ==
  IF fp = "" THEN [raised |-> FALSE, dic |-> << >>]
  ELSE IF fp \notin DOMAIN VectorFiles THEN [raised |-> TRUE, dic |-> << >>]
  ELSE [raised |-> FALSE, dic |-> LoadLines(VectorFiles[fp], << >>)]

\* the arguments of a driver: -r, --ms, --pr, -vectors, -similarityfunction
\* and -weighting_scheme for main; vectorpath and simfun for
\* compute_s2match_from_two_lists, which has no weighting scheme to give
Arguments(r, ms, vectors, similarityfunction, weighting_scheme) ==
  [r |-> r, ms |-> ms, pr |-> FALSE, vectors |-> vectors,
   similarityfunction |-> similarityfunction, weighting_scheme |-> weighting_scheme]

\* the arguments the driver gives to get_best_match: the loaded vectors, the
\* function of the given name, and the weighting scheme
Resolved(c, arguments) ==
  [c EXCEPT !.vectors = load_vecs(arguments.vectors).dic,
            !.simfun = get_sim_fun(arguments.similarityfunction),
            !.weighting_scheme = arguments.weighting_scheme]

\* a printed line with the number it shows
Line(text, value) == [line |-> text, value |-> value]

\* test_triple_num of the pair a call of get_best_match ran on
TestTripleNum(f) == PyLen(f.instance1) + PyLen(f.attribute1) + PyLen(f.relation1)

\* gold_triple_num of the pair a call of get_best_match ran on
GoldTripleNum(f) == PyLen(f.instance2) + PyLen(f.attribute2) + PyLen(f.relation2)

\* a memo that is left as it is
KeepEntries(memo) == memo

\* match_triple_dict.clear()
clear(memo) == << >>

\* the lines "Precision", "Recall" printed under pr_flag for the result r of
\* compute_f
PrLines(r, pr) ==
  IF pr THEN <<Line("Precision", r.precision), Line("Recall", r.recall)>> ELSE << >>

\* the driver after the body of the pair loop with the totals set to the
\* counts of the finished call instead of raised by them
AccumulatedLast(d, f, r, single, pr) ==
  [d EXCEPT !.pc = "loop",
            !.out = IF ~ single
                    THEN @ \o PrLines(r, pr) \o <<Line("Smatch score F1", r.f_score)>>
                    ELSE @,
            !.best_f_score = IF ~ single THEN <<r.f_score>> ELSE @,
            !.total_match_num_soft = f.best_match_num,
            !.total_test_num = TestTripleNum(f),
            !.total_gold_num = GoldTripleNum(f),
            !.sent_num = @ + 1]

\* the driver after the pair loop's body from "if not single_score" to
\* "sent_num += 1", for the finished call f and r = compute_f of its pair
Accumulated(d, f, r, single, pr) ==
  [d EXCEPT !.pc = "loop",
            !.out = IF ~ single
                    THEN @ \o PrLines(r, pr) \o <<Line("Smatch score F1", r.f_score)>>
                    ELSE @,
            !.best_f_score = IF ~ single THEN <<r.f_score>> ELSE @,
            !.total_match_num_soft = @ + f.best_match_num,
            !.total_test_num = @ + TestTripleNum(f),
            !.total_gold_num = @ + GoldTripleNum(f),
            !.sent_num = @ + 1]

\* main up to the pair loop: the globals set from the arguments, then
\* load_vecs, which may raise, and get_sim_fun
MainStart ==
  /\ drv.kind = "main" /\ drv.pc = "start"
  /\ iteration_num' = drv.arguments.r + 1
  /\ single_score' = IF drv.arguments.ms THEN FALSE ELSE single_score
  /\ pr_flag' = IF drv.arguments.pr THEN TRUE ELSE pr_flag
  /\ IF load_vecs(drv.arguments.vectors).raised
     THEN drv' = [drv EXCEPT !.pc = "FileNotFoundError"] /\ args' = args
     ELSE drv' = [drv EXCEPT !.pc = "loop"] /\ args' = Resolved(args, drv.arguments)
  /\ UNCHANGED <<match_triple_dict, fr, sim>>

\* one of the streams is at its end: break
MainBreak ==
  /\ drv.kind = "main" /\ drv.pc = "loop"
  /\ drv.in1 = << >> \/ drv.in2 = << >>
  /\ drv' = [drv EXCEPT !.pc = "report"]
  /\ UNCHANGED <<match_triple_dict, iteration_num, single_score, pr_flag, args, fr, sim>>

\* the skip of a pair with only the stream of the AMR that does not parse
\* moved on
MainSkipOneStream ==
  /\ drv.kind = "main" /\ drv.pc = "loop"
  /\ drv.in1 # << >> /\ drv.in2 # << >>
  /\ Head(drv.in1) = << >> \/ Head(drv.in2) = << >>
  /\ drv' = [drv EXCEPT !.in1 = IF Head(drv.in1) = << >> THEN Tail(@) ELSE @,
                        !.in2 = IF Head(drv.in2) = << >> THEN Tail(@) ELSE @,
                        !.out = Append(@, Line("Smatch score F1: NA_WRONG_AMR", FracZero))]
  /\ UNCHANGED <<match_triple_dict, iteration_num, single_score, pr_flag, args, fr, sim>>

\* one of the two AMRs does not parse: NA_WRONG_AMR and continue
MainSkip ==
  /\ drv.kind = "main" /\ drv.pc = "loop"
  /\ drv.in1 # << >> /\ drv.in2 # << >>
  /\ Head(drv.in1) = << >> \/ Head(drv.in2) = << >>
  /\ drv' = [drv EXCEPT !.in1 = Tail(@), !.in2 = Tail(@),
                        !.out = Append(@, Line("Smatch score F1: NA_WRONG_AMR", FracZero))]
  /\ UNCHANGED <<match_triple_dict, iteration_num, single_score, pr_flag, args, fr, sim>>

\* both AMRs parse: the call of get_best_match on their triples
MainCall ==
  /\ drv.kind = "main" /\ drv.pc = "loop"
  /\ drv.in1 # << >> /\ drv.in2 # << >>
  /\ Head(drv.in1) # << >> /\ Head(drv.in2) # << >>
  /\ fr' = (1 :> NewCall(Head(drv.in1)[1], Head(drv.in2)[1]))
  /\ drv' = [drv EXCEPT !.pc = "call", !.in1 = Tail(@), !.in2 = Tail(@)]
  /\ UNCHANGED <<match_triple_dict, iteration_num, single_score, pr_flag, args, sim>>

\* get_best_match returned: the per-pair output, the totals, and the clearing
\* of the memo
MainAccumulate ==
  /\ drv.kind = "main" /\ drv.pc = "call"
  /\ fr[1].pc = "done"
  /\ drv' = Accumulated(drv, fr[1],
                        compute_f(fr[1].best_match_num, TestTripleNum(fr[1]),
                                  GoldTripleNum(fr[1])),
                        single_score, pr_flag)
  /\ match_triple_dict' = clear(match_triple_dict)
  /\ fr' = << >>
  /\ UNCHANGED <<iteration_num, single_score, pr_flag, args, sim>>

\* the driver after the statements of main that follow the pair loop, r being
\* compute_f of the totals: best_f_score is bound by the document score, or by
\* the last pair's score, or not at all
Reported(d, r, single, pr) ==
  IF single
  THEN [d EXCEPT !.pc = "done",
                 !.best_f_score = <<r.f_score>>,
                 !.out = @ \o PrLines(r, pr) \o <<Line("Document F-score", r.f_score)>>]
  ELSE IF d.best_f_score # << >>
  THEN [d EXCEPT !.pc = "done",
                 !.out = Append(@, Line("Document F-score", d.best_f_score[1]))]
  ELSE [d EXCEPT !.pc = "UnboundLocalError"]

\* after the pair loop: the document-level score and its line
MainReport ==
  /\ drv.kind = "main" /\ drv.pc = "report"
  /\ drv' = Reported(drv,
                     compute_f(drv.total_match_num_soft, drv.total_test_num,
                               drv.total_gold_num),
                     single_score, pr_flag)
  /\ UNCHANGED <<match_triple_dict, iteration_num, single_score, pr_flag, args, fr, sim>>

\* compute_s2match_from_two_lists up to the pair loop: get_sim_fun, the
\* globals, then load_vecs, which may raise
ListsStart ==
  /\ drv.kind = "lists" /\ drv.pc = "start"
  /\ iteration_num' = ListsIterationNum
  /\ pr_flag' = TRUE
  /\ IF load_vecs(drv.arguments.vectors).raised
     THEN drv' = [drv EXCEPT !.pc = "FileNotFoundError"] /\ args' = args
     ELSE drv' = [drv EXCEPT !.pc = "loop"] /\ args' = Resolved(args, drv.arguments)
  /\ UNCHANGED <<match_triple_dict, single_score, fr, sim>>

\* zip(list1, list2) is exhausted
ListsStop ==
  /\ drv.kind = "lists" /\ drv.pc = "loop"
  /\ drv.in1 = << >> \/ drv.in2 = << >>
  /\ drv' = [drv EXCEPT !.pc = "return"]
  /\ UNCHANGED <<match_triple_dict, iteration_num, single_score, pr_flag, args, fr, sim>>

\* the next pair of zip(list1, list2): the call of get_best_match on it
ListsCall ==
  /\ drv.kind = "lists" /\ drv.pc = "loop"
  /\ drv.in1 # << >> /\ drv.in2 # << >>
  /\ fr' = (1 :> NewCall(Head(drv.in1)[1], Head(drv.in2)[1]))
  /\ drv' = [drv EXCEPT !.pc = "call", !.in1 = Tail(@), !.in2 = Tail(@)]
  /\ UNCHANGED <<match_triple_dict, iteration_num, single_score, pr_flag, args, sim>>

\* get_best_match returned: the per-pair output, the totals, and the clearing
\* of the memo
ListsAccumulate ==
  /\ drv.kind = "lists" /\ drv.pc = "call"
  /\ fr[1].pc = "done"
  /\ drv' = Accumulated(drv, fr[1],
                        compute_f(fr[1].best_match_num, TestTripleNum(fr[1]),
                                  GoldTripleNum(fr[1])),
                        single_score, pr_flag)
  /\ match_triple_dict' = clear(match_triple_dict)
  /\ fr' = << >>
  /\ UNCHANGED <<iteration_num, single_score, pr_flag, args, sim>>

\* "return compute_f(total_match_num_soft, total_test_num, total_gold_num)"
ListsReturn ==
  /\ drv.kind = "lists" /\ drv.pc = "return"
  /\ drv' = [drv EXCEPT !.pc = "done",
                        !.result = <<compute_f(drv.total_match_num_soft,
                                               drv.total_test_num, drv.total_gold_num)>>]
  /\ UNCHANGED <<match_triple_dict, iteration_num, single_score, pr_flag, args, fr, sim>>

\* the graphs of the driver runs
DriverGraphs ==
  {g \in SmallGraphs : \/ PyLen(g.instance) = 1
                       \/ g.instance[0][3] = <<"c">> /\ g.instance[1][3] = <<"a">>}

\* the streams of at most MaxPairs items
Streams(items) == UNION {[1 .. k -> items] : k \in 0 .. MaxPairs}

\* a driver that has not started, on the inputs in1 and in2
NewDriver(kind, in1, in2, arguments) ==
  [kind |-> kind, pc |-> "start", in1 |-> in1, in2 |-> in2, arguments |-> arguments,
   total_match_num_soft |-> 0, total_test_num |-> 0, total_gold_num |-> 0,
   sent_num |-> 1, best_f_score |-> << >>, out |-> << >>, result |-> << >>]

\* main on two files of AMRs, some of which do not parse (<<>>), or
\* compute_s2match_from_two_lists on two lists
InitMain ==
  /\ match_triple_dict = << >>
  /\ iteration_num = IterationNumDefault
  /\ single_score = TRUE
  /\ pr_flag = FALSE
  /\ args = DefaultArgs("standard")
  /\ fr = << >>
  /\ sim = NoSim
  /\ \/ \E in1 \in Streams({<< >>} \cup {<<g>> : g \in DriverGraphs}),
           in2 \in Streams({<< >>} \cup {<<g>> : g \in DriverGraphs}),
           ms \in BOOLEAN :
          drv = NewDriver("main", in1, in2,
                          Arguments(MaxRestarts, ms, "glove.txt", "cosine", "standard"))
     \/ \E in1 \in Streams({<<g>> : g \in DriverGraphs}),
           in2 \in Streams({<<g>> : g \in DriverGraphs}) :
          drv = NewDriver("lists", in1, in2,
                          Arguments(0, FALSE, "glove.txt", "cosine", "standard"))

NextMain ==
  \/ MainStart
  \/ MainBreak
  \/ MainSkip
  \/ MainCall
  \/ MainAccumulate
  \/ MainReport
  \/ ListsStart
  \/ ListsStop
  \/ ListsCall
  \/ ListsAccumulate
  \/ ListsReturn
  \/ Next

SpecMain == InitMain /\ [][NextMain]_vars

\* ------------------------------------------------------------------------
\* SpecSense: maybe_sim on pairs of labels that start with a letter and carry
\* up to two suffixes
\* ------------------------------------------------------------------------

\* the largest length of a label with suffixes given to the similarity kernel
MaxSenseLen == 5

\* the characters of the labels with suffixes
SenseChars == {"a", "-", "1"}

\* whether x has a hyphen at position k followed by one or more digits up to
\* its end
SenseSuffixAt(x, k) ==
  /\ k < Len(x)
  /\ x[k] = "-"
  /\ \A m \in (k + 1) .. Len(x) : x[m] \in Digits

\* x without its final -DD, or None when x has no such suffix
Stripped(x) ==
  IF \E k \in 1 .. Len(x) : SenseSuffixAt(x, k)
  THEN <<SubSeq(x, 1, (CHOOSE k \in 1 .. Len(x) : SenseSuffixAt(x, k)) - 1)>>
  ELSE << >>

\* the labels with suffixes: they start with a letter, and the only digits
\* they hold are those of a final -DD
SenseLabels ==
  {w \in Strings(SenseChars, MaxSenseLen) :
     w # << >> /\ w[1] = "a" /\ (MatchesDigit(w) => Stripped(w) # << >>)}

InitSense ==
  /\ match_triple_dict = << >>
  /\ iteration_num = MaxRestarts + 1
  /\ single_score = TRUE
  /\ pr_flag = FALSE
  /\ args = DefaultArgs("standard")
  /\ fr = << >>
  /\ drv = NoDriver
  /\ \E a \in SenseLabels, b \in SenseLabels,
        c \in {[cutoff |-> 0, diffsense |-> One], [cutoff |-> One \div 2, diffsense |-> One \div 2]} :
       sim = [pc |-> "in", a |-> a, b |-> b, vecs |-> Vocab, cutoff |-> c.cutoff,
              diffsense |-> c.diffsense, simfun |-> get_sim_fun("cosine"), mwp |-> "split",
              result |-> 0]

SpecSense == InitSense /\ [][NextSim]_vars

\* ------------------------------------------------------------------------
\* SpecSplit: compute_pool under both multi-token strategies, on graphs with
\* a hyphenated concept whose parts are in the vocabulary
\* ------------------------------------------------------------------------

\* the concept labels: a and b are in the vocabulary, a-b is not
SplitLabels == {<<"a">>, <<"b">>, <<"a", "-", "b">>}

\* the graphs of n nodes over these labels, the root with its TOP attribute
SplitGraphsOfSize(n) ==
  {[instance |-> [i \in Range(n) |-> <<INSTANCE_LABEL, i, cs[i]>>],
    attribute |-> [i \in Range(1) |-> <<<<"T", "O", "P">>, 0, cs[0]>>],
    relation |-> << >>] :
     cs \in [Range(n) -> SplitLabels]}

SplitGraphs == SplitGraphsOfSize(1) \cup SplitGraphsOfSize(2)

\* the values of the option -multi_token_concept_strategy
Strategies == {"split", "None"}

InitSplit ==
  /\ match_triple_dict = << >>
  /\ iteration_num = MaxRestarts + 1
  /\ single_score = TRUE
  /\ pr_flag = FALSE
  /\ \E mwp \in Strategies : args = [DefaultArgs("standard") EXCEPT !.mwp = mwp]
  /\ \E g1 \in SplitGraphs, g2 \in SplitGraphs : fr = (1 :> NewCall(g1, g2))
  /\ drv = NoDriver
  /\ sim = NoSim

SpecSplit == InitSplit /\ [][NextPool]_vars

\* ------------------------------------------------------------------------
\* SpecCache: a sequence of calls of maybe_has_sim on one similarity cache,
\* as the loops of one compute_pool make them
\* ------------------------------------------------------------------------

\* the largest number of lookups of a sequence
MaxLookups == 2

\* the characters of the labels looked up
CacheChars == {"a", "_"}

\* the labels looked up
CacheLabels == Strings(CacheChars, MaxLen) \ {<< >>}

\* the key under which the cache answers the lookup of (a, b): None when it
\* holds neither a_b nor b_a
HitKey(sim_dict, a, b) ==
  IF CacheKey(a, b) \in DOMAIN sim_dict THEN <<CacheKey(a, b)>>
  ELSE IF CacheKey(b, a) \in DOMAIN sim_dict THEN <<CacheKey(b, a)>>
  ELSE << >>

\* the labels that stored each key: unchanged on a hit, both keys of the pair
\* on a miss
Owners(owner, a, b, hit) ==
  IF hit # << >> THEN owner
  ELSE Put(Put(owner, CacheKey(a, b), {a, b}), CacheKey(b, a), {a, b})

\* the cache under test after the lookup of (a, b) returned r
Looked(s, a, b, r, hit) ==
  [s EXCEPT !.sim_dict = r.sim_dict, !.n = @ + 1, !.a = a, !.b = b, !.s = r.s,
            !.hit = hit, !.owner = Owners(@, a, b, hit)]

InitCache ==
  /\ match_triple_dict = << >>
  /\ iteration_num = MaxRestarts + 1
  /\ single_score = TRUE
  /\ pr_flag = FALSE
  /\ args = DefaultArgs("standard")
  /\ fr = << >>
  /\ drv = NoDriver
  /\ sim = [pc |-> "cache", sim_dict |-> << >>, n |-> 0, a |-> << >>, b |-> << >>,
            s |-> 0, hit |-> << >>, owner |-> << >>]

\* one call of maybe_has_sim on the cache
Lookup ==
  /\ sim.pc = "cache"
  /\ sim.n < MaxLookups
  /\ \E a \in CacheLabels, b \in CacheLabels :
       sim' = Looked(sim, a, b,
                     maybe_has_sim(a, b, sim.sim_dict, args.vectors, args.cutoff,
                                   args.diffsense, args.simfun, args.mwp),
                     HitKey(sim.sim_dict, a, b))
  /\ UNCHANGED <<match_triple_dict, iteration_num, single_score, pr_flag, args, fr, drv>>

NextCache == Lookup

SpecCache == InitCache /\ [][NextCache]_vars

\* ------------------------------------------------------------------------
\* SpecF: compute_f on a match number and two triple counts
\* ------------------------------------------------------------------------

\* the largest triple count given to compute_f
MaxTripleNum == 4

\* the match numbers given to compute_f: the halves up to the largest count
MatchNums == {k * (One \div 2) : k \in 0 .. 2 * MaxTripleNum}

InitF ==
  /\ match_triple_dict = << >>
  /\ iteration_num = MaxRestarts + 1
  /\ single_score = TRUE
  /\ pr_flag = FALSE
  /\ args = DefaultArgs("standard")
  /\ fr = << >>
  /\ drv = NoDriver
  /\ \E m \in MatchNums, t \in 0 .. MaxTripleNum, g \in 0 .. MaxTripleNum :
       sim = [pc |-> "f_in", match_num |-> m, test_num |-> t, gold_num |-> g,
              result |-> << >>]

\* a call of compute_f
ComputeF ==
  /\ sim.pc = "f_in"
  /\ sim' = [sim EXCEPT !.pc = "f_out",
                        !.result = <<compute_f(sim.match_num, sim.test_num, sim.gold_num)>>]
  /\ UNCHANGED <<match_triple_dict, iteration_num, single_score, pr_flag, args, fr, drv>>

NextF == ComputeF

SpecF == InitF /\ [][NextF]_vars

\* ------------------------------------------------------------------------
\* SpecConfig: the drivers under any -vectors, -similarityfunction and
\* -weighting_scheme, known or not
\* ------------------------------------------------------------------------

\* the largest number of AMRs in an input stream of a run of SpecConfig
MaxConfigPairs == 2

\* the values given for -similarityfunction: a known and an unknown name
SimFunArgs == {"cosine", "dice"}

\* the values given for -weighting_scheme: a known and an unknown name
WeightingArgs == {"standard", "flat"}

\* the values given for -vectors: no path, a file of vectors, and a path that
\* cannot be opened
VectorArgs == {"", "glove.txt", "missing.txt"}

\* the graphs of the runs: the graphs of the driver runs, and one node with
\* the second concept of the vocabulary
ConfigGraphs ==
  DriverGraphs \cup
    {g \in GraphsOfSize(1) : g.relation = << >> /\ g.instance[0][3] = <<"b">>}

\* the streams of at most MaxConfigPairs items
ConfigStreams(items) == UNION {[1 .. k -> items] : k \in 0 .. MaxConfigPairs}

\* an exception raised by get_best_match leaves main through the pair loop
MainRaise ==
  /\ drv.kind = "main" /\ drv.pc = "call"
  /\ fr[1].pc \in {"AssertionError", "TypeError"}
  /\ drv' = [drv EXCEPT !.pc = fr[1].pc]
  /\ UNCHANGED <<match_triple_dict, iteration_num, single_score, pr_flag, args, fr, sim>>

\* an exception raised by get_best_match leaves
\* compute_s2match_from_two_lists through the pair loop
ListsRaise ==
  /\ drv.kind = "lists" /\ drv.pc = "call"
  /\ fr[1].pc \in {"AssertionError", "TypeError"}
  /\ drv' = [drv EXCEPT !.pc = fr[1].pc]
  /\ UNCHANGED <<match_triple_dict, iteration_num, single_score, pr_flag, args, fr, sim>>

InitConfig ==
  /\ match_triple_dict = << >>
  /\ iteration_num = IterationNumDefault
  /\ single_score = TRUE
  /\ pr_flag = FALSE
  /\ args = DefaultArgs("standard")
  /\ fr = << >>
  /\ sim = NoSim
  /\ \/ \E in1 \in ConfigStreams({<< >>} \cup {<<g>> : g \in ConfigGraphs}),
           in2 \in ConfigStreams({<< >>} \cup {<<g>> : g \in ConfigGraphs}),
           ms \in BOOLEAN, fp \in VectorArgs, sf \in SimFunArgs, ws \in WeightingArgs :
          drv = NewDriver("main", in1, in2, Arguments(MaxRestarts, ms, fp, sf, ws))
     \/ \E in1 \in ConfigStreams({<<g>> : g \in ConfigGraphs}),
           in2 \in ConfigStreams({<<g>> : g \in ConfigGraphs}),
           fp \in VectorArgs, sf \in SimFunArgs :
          drv = NewDriver("lists", in1, in2, Arguments(0, FALSE, fp, sf, "standard"))

NextConfig ==
  \/ MainRaise
  \/ ListsRaise
  \/ NextMain

SpecConfig == InitConfig /\ [][NextConfig]_vars

\* ------------------------------------------------------------------------
\* SpecSeed: smart_init_mapping and random_init_mapping run again and again
\* on one pair, the caller having seeded the generator before each run
\* ------------------------------------------------------------------------

\* the largest seed, and the largest value random.seed() can take from the
\* system's entropy
MaxSeed == 3

\* the generator's modulus
RngModulus == 16

\* the number of runs of the initialisers on the pair
MaxRuns == 2

\* the state of the generator after one draw
NextRng(rng) == (5 * rng + 3) % RngModulus

\* random.randint(0, n - 1): a function of the generator's state
randint(rng, n) == rng % n

\* candidates.pop(rid), candidates being a list held as a sequence
Popped(candidates, rid) ==
  [k \in 1 .. Len(candidates) - 1 |-> IF k <= rid THEN candidates[k] ELSE candidates[k + 1]]

RECURSIVE DrawUnmatched(_, _, _)
\* "while len(candidates) > 0": draw rid, pop a matched candidate, stop at the
\* first candidate not in matched_dict
DrawUnmatched(candidates, matched_dict, rng) ==
  IF candidates = << >> THEN [pick |-> << >>, rng |-> rng]
  ELSE IF candidates[randint(rng, Len(candidates)) + 1] \in matched_dict
  THEN DrawUnmatched(Popped(candidates, randint(rng, Len(candidates))), matched_dict,
                     NextRng(rng))
  ELSE [pick |-> <<candidates[randint(rng, Len(candidates)) + 1]>>, rng |-> NextRng(rng)]

RECURSIVE SeededRandomLoop(_, _, _, _, _)
\* the end of the body of the loop of random_init_mapping after the draw d
SeededRandomStep(candidate_mapping, i, result, matched_dict, d) ==
  IF d.pick = << >>
  THEN SeededRandomLoop(candidate_mapping, i + 1, Put(result, i, -1), matched_dict, d.rng)
  ELSE SeededRandomLoop(candidate_mapping, i + 1, Put(result, i, d.pick[1]),
                        matched_dict \cup {d.pick[1]}, d.rng)

\* the loop of random_init_mapping from node i on, the generator being in
\* state rng
SeededRandomLoop(candidate_mapping, i, result, matched_dict, rng) ==
  IF i >= PyLen(candidate_mapping) THEN result
  ELSE SeededRandomStep(candidate_mapping, i, result, matched_dict,
                        DrawUnmatched(IterOrder(candidate_mapping[i]), matched_dict, rng))

RECURSIVE SeededSecondPass(_, _, _, _, _)
\* the end of the body of the second loop of smart_init_mapping after the
\* draw d
SeededSecondStep(candidate_mapping, no_word_match, result, matched_dict, d) ==
  IF d.pick = << >>
  THEN SeededSecondPass(candidate_mapping, Tail(no_word_match), result, matched_dict, d.rng)
  ELSE SeededSecondPass(candidate_mapping, Tail(no_word_match),
                        [result EXCEPT ![Head(no_word_match)] = d.pick[1]],
                        matched_dict \cup {d.pick[1]}, d.rng)

\* the second loop of smart_init_mapping, the generator being in state rng
SeededSecondPass(candidate_mapping, no_word_match, result, matched_dict, rng) ==
  IF no_word_match = << >> THEN result
  ELSE SeededSecondStep(candidate_mapping, no_word_match, result, matched_dict,
                        DrawUnmatched(IterOrder(candidate_mapping[Head(no_word_match)]),
                                      matched_dict, rng))

\* the second loop of smart_init_mapping on what the first loop left in acc
SeededSmartFinish(candidate_mapping, acc, rng) ==
  SeededSecondPass(candidate_mapping, acc.no_word_match, acc.result, acc.matched_dict, rng)

\* smart_init_mapping after its random.seed() left the generator in state rng
SeededSmartInit(candidate_mapping, instance1, instance2, rng) ==
  SeededSmartFinish(candidate_mapping,
                    SmartFirstPass(candidate_mapping, instance1, instance2, 0,
                                   [result |-> << >>, matched_dict |-> {},
                                    no_word_match |-> << >>]),
                    rng)

\* random_init_mapping after its random.seed() left the generator in state rng
SeededRandomInit(candidate_mapping, rng) ==
  SeededRandomLoop(candidate_mapping, 0, << >>, {}, rng)

\* the pair of graphs, its candidate sets, the generator, and the runs made
InitSeed ==
  /\ match_triple_dict = << >>
  /\ iteration_num = MaxRestarts + 1
  /\ single_score = TRUE
  /\ pr_flag = FALSE
  /\ args = DefaultArgs("standard")
  /\ fr = << >>
  /\ drv = NoDriver
  /\ \E g1 \in SmallGraphs, g2 \in SmallGraphs :
       sim = [pc |-> "seed", instance1 |-> g1.instance, instance2 |-> g2.instance,
              candidate_mappings |->
                compute_pool(g1.instance, g1.attribute, g1.relation,
                             g2.instance, g2.attribute, g2.relation, args).candidate_mapping,
              rng |-> 0, seed |-> 0, runs |-> << >>]

\* the caller's random.seed(s)
CallerSeeds ==
  /\ sim.pc = "seed"
  /\ Len(sim.runs) < MaxRuns
  /\ \E s \in 0 .. MaxSeed : sim' = [sim EXCEPT !.pc = "init", !.rng = s, !.seed = s]
  /\ UNCHANGED <<match_triple_dict, iteration_num, single_score, pr_flag, args, fr, drv>>

\* a run of smart_init_mapping: random.seed() takes a new state e from the
\* system, whatever the generator's state was
SmartInitRun ==
  /\ sim.pc = "init"
  /\ \E e \in 0 .. MaxSeed :
       sim' = [sim EXCEPT !.pc = "seed", !.rng = e,
                          !.runs = Append(@, [by |-> "smart_init_mapping", seed |-> sim.seed,
                                              mapping |->
                                                SeededSmartInit(sim.candidate_mappings,
                                                                sim.instance1,
                                                                sim.instance2, e)])]
  /\ UNCHANGED <<match_triple_dict, iteration_num, single_score, pr_flag, args, fr, drv>>

\* a run of random_init_mapping: random.seed() takes a new state e from the
\* system, whatever the generator's state was
RandomInitRun ==
  /\ sim.pc = "init"
  /\ \E e \in 0 .. MaxSeed :
       sim' = [sim EXCEPT !.pc = "seed", !.rng = e,
                          !.runs = Append(@, [by |-> "random_init_mapping", seed |-> sim.seed,
                                              mapping |->
                                                SeededRandomInit(sim.candidate_mappings, e)])]
  /\ UNCHANGED <<match_triple_dict, iteration_num, single_score, pr_flag, args, fr, drv>>

NextSeed ==
  \/ CallerSeeds
  \/ SmartInitRun
  \/ RandomInitRun

SpecSeed == InitSeed /\ [][NextSeed]_vars

\* ------------------------------------------------------------------------
\* SpecRestarts: the drivers in a process whose restarts setting is R: main
\* is given -r R; compute_s2match_from_two_lists has no such parameter and is
\* called with the module's iteration_num at R + 1
\* ------------------------------------------------------------------------

InitRestarts ==
  /\ match_triple_dict = << >>
  /\ single_score = TRUE
  /\ pr_flag = FALSE
  /\ args = DefaultArgs("standard")
  /\ fr = << >>
  /\ sim = NoSim
  /\ \E r \in 0 .. MaxRestarts :
       \/ /\ iteration_num = IterationNumDefault
          /\ \E in1 \in ConfigStreams({<< >>} \cup {<<g>> : g \in DriverGraphs}),
                in2 \in ConfigStreams({<< >>} \cup {<<g>> : g \in DriverGraphs}),
                ms \in BOOLEAN :
               drv = NewDriver("main", in1, in2,
                               Arguments(r, ms, "glove.txt", "cosine", "standard"))
       \/ /\ iteration_num = r + 1
          /\ \E in1 \in ConfigStreams({<<g>> : g \in DriverGraphs}),
                in2 \in ConfigStreams({<<g>> : g \in DriverGraphs}) :
               drv = NewDriver("lists", in1, in2,
                               Arguments(r, FALSE, "glove.txt", "cosine", "standard"))

SpecRestarts == InitRestarts /\ [][NextMain]_vars

\* ------------------------------------------------------------------------
\* SpecHeap: the vocabulary as a table of references to arrays. maybe_sim is
\* called again and again on that table while get_best_match runs on a pair
\* ------------------------------------------------------------------------

\* the number of calls of maybe_sim on the table
MaxSimCalls == 2

\* the array itself instead of a copy of it
SameArray(heap, ref) == [ref |-> ref, heap |-> heap]

\* np.copy(heap[ref]): a new array with the same numbers
np_copy(heap, ref) == [ref |-> Len(heap) + 1, heap |-> Append(heap, heap[ref])]

\* "v = np.sum(np.array(l), axis=0)" when l is not empty: a new array
SumOfPartsRef(heap, l) ==
  IF l # << >> THEN [v |-> <<Len(heap) + 1>>, heap |-> Append(heap, VecSum(l))]
  ELSE [v |-> << >>, heap |-> heap]

\* the vocabulary as maybe_get_vec reads it: word -> numbers
Values(vecs, heap) == [w \in DOMAIN vecs |-> heap[vecs[w]]]

\* "v = np.copy(vecs[word])" as a result of maybe_get_vec
Copied(c) == [v |-> <<c.ref>>, heap |-> c.heap]

\* maybe_get_vec on the table: the reference it returns (None is <<>>) and
\* the arrays after the call
maybe_get_vec_ref(word, vecs, mwp, heap) ==
  IF word \in DOMAIN vecs THEN Copied(np_copy(heap, vecs[word]))
  ELSE IF HasDash(word) /\ mwp = "split"
       THEN SumOfPartsRef(heap, PartsInVocab(Split(word, "-"), Values(vecs, heap)))
       ELSE [v |-> << >>, heap |-> heap]

\* the lookup of maybe_sim for one label, before the +s extension
BaseVecRef(a, a_wo_sense, vecs, mwp, heap) ==
  IF Truthy(a_wo_sense) THEN maybe_get_vec_ref(a_wo_sense[1], vecs, "None", heap)
  ELSE maybe_get_vec_ref(a, vecs, mwp, heap)

\* "if v is not None: a_vec += v": the array a_vec refers to is changed in
\* place; r is the result of the lookup of v
AddInPlace(a_vec, r) ==
  IF r.v # << >> THEN [r.heap EXCEPT ![a_vec] = VecAdd(@, r.heap[r.v[1]])]
  ELSE r.heap

\* the arrays after the third-person +s extension of the vector of a label
ExtendedRef(a, a_wo_sense, a_vec, vecs, heap) ==
  IF HasDash(a) /\ Truthy(a_wo_sense)
  THEN AddInPlace(a_vec, maybe_get_vec_ref(a_wo_sense[1] \o <<"s">>, vecs, "None", heap))
  ELSE heap

\* maybe_sim from "sim = simfun(a_vec, b_vec)" on
GradedRef(a_wo_sense, b_wo_sense, a_vec, b_vec, heap, c) ==
  [s |-> Graded(ApplySimFun(c.simfun, heap[a_vec], heap[b_vec]),
                a_wo_sense, b_wo_sense, c.cutoff, c.diffsense),
   heap |-> heap]

\* maybe_sim from "if a_vec is None or b_vec is None" on; ra and rb are the
\* results of the two lookups, rb made on the arrays ra left
SimOfRefs(a, b, a_wo_sense, b_wo_sense, ra, rb, vecs, c) ==
  IF ra.v = << >> \/ rb.v = << >> THEN [s |-> 0, heap |-> rb.heap]
  ELSE GradedRef(a_wo_sense, b_wo_sense, ra.v[1], rb.v[1],
                 ExtendedRef(b, b_wo_sense, rb.v[1], vecs,
                             ExtendedRef(a, a_wo_sense, ra.v[1], vecs, rb.heap)),
                 c)

\* the second lookup of maybe_sim, made after the first
SimAfterFirst(a, b, a_wo_sense, b_wo_sense, ra, vecs, c) ==
  SimOfRefs(a, b, a_wo_sense, b_wo_sense, ra,
            BaseVecRef(b, b_wo_sense, vecs, c.mwp, ra.heap), vecs, c)

\* maybe_sim on the table: the score and the arrays after the call
maybe_sim_ref(a, b, vecs, heap, c) ==
  IF a = b THEN [s |-> One, heap |-> heap]
  ELSE IF SenseRuleFires(a, b, WoSense(a), WoSense(b))
  THEN [s |-> c.diffsense, heap |-> heap]
  ELSE SimAfterFirst(a, b, WoSense(a), WoSense(b),
                     BaseVecRef(a, WoSense(a), vecs, c.mwp, heap), vecs, c)

\* the words of the table and their arrays as loaded: a, its third-person
\* form as, and b
HeapWords == (<<"a">> :> 1) @@ (<<"a", "s">> :> 2) @@ (<<"b">> :> 3)

HeapLoaded == <<<<1, 0>>, <<0, 1>>, <<3, 4>>>>

\* the labels given to maybe_sim
HeapLabels == {<<"a">>, <<"b">>, <<"a", "-", "1">>, <<"b", "-", "1">>, <<"a", "-", "b">>}

InitHeap ==
  /\ match_triple_dict = << >>
  /\ iteration_num = MaxRestarts + 1
  /\ single_score = TRUE
  /\ pr_flag = FALSE
  /\ args = [DefaultArgs("standard") EXCEPT !.vectors = Values(HeapWords, HeapLoaded)]
  /\ \E g1 \in DriverGraphs, g2 \in DriverGraphs : fr = (1 :> NewCall(g1, g2))
  /\ drv = NoDriver
  /\ sim = [pc |-> "heap", vecs |-> HeapWords, heap |-> HeapLoaded,
            n |-> 0, a |-> << >>, b |-> << >>, s |-> 0]

\* the state of the kernel after a call of maybe_sim returned r: the arrays
\* no name refers to any more are gone
Called(s, a, b, r) ==
  [s EXCEPT !.n = @ + 1, !.a = a, !.b = b, !.s = r.s,
            !.heap = SubSeq(r.heap, 1, Len(s.heap))]

\* one call of maybe_sim on two labels
MaybeSimRef ==
  /\ sim.pc = "heap"
  /\ sim.n < MaxSimCalls
  /\ \E a \in HeapLabels, b \in HeapLabels :
       sim' = Called(sim, a, b, maybe_sim_ref(a, b, sim.vecs, sim.heap, args))
  /\ UNCHANGED <<match_triple_dict, iteration_num, single_score, pr_flag, args, fr, drv>>

NextHeap ==
  \/ MaybeSimRef
  \/ Next

SpecHeap == InitHeap /\ [][NextHeap]_vars

\* ------------------------------------------------------------------------
\* SpecAttr: compute_pool on graphs with up to two attribute triples, under
\* the weightings standard and concept
\* ------------------------------------------------------------------------

\* the largest number of attribute triples of a graph given to the pool builder
MaxAttributes == 2

\* the attribute labels: the root marker and another one
AttrLabels == {<<"T", "O", "P">>, <<"m", "o", "d">>}

\* the attribute values: a and b are in the vocabulary, A is a in lower case
AttrValues == {<<"a">>, <<"b">>, <<"A">>}

\* the graphs of n nodes with the concept a and these attribute triples
AttrGraphsOfSize(n) ==
  {[instance |-> [i \in Range(n) |-> <<INSTANCE_LABEL, i, <<"a">>>>],
    attribute |-> al,
    relation |-> << >>] :
     al \in UNION {[Range(k) -> {<<l, i, v>> : l \in AttrLabels, i \in Range(n),
                                              v \in AttrValues}] :
                     k \in 0 .. MaxAttributes}}

AttrGraphs == AttrGraphsOfSize(1) \cup AttrGraphsOfSize(2)

InitAttr ==
  /\ match_triple_dict = << >>
  /\ iteration_num = MaxRestarts + 1
  /\ single_score = TRUE
  /\ pr_flag = FALSE
  /\ \E ws \in {"standard", "concept"} : args = DefaultArgs(ws)
  /\ \E g1 \in AttrGraphs, g2 \in AttrGraphs : fr = (1 :> NewCall(g1, g2))
  /\ drv = NoDriver
  /\ sim = NoSim

SpecAttr == InitAttr /\ [][NextPool]_vars

\* ------------------------------------------------------------------------
\* SpecLive: one call of get_best_match that keeps running, with a record of
\* the mappings each start has been at
\* ------------------------------------------------------------------------

\* the call f with the mappings its start has been at so far: none yet
Unseen(f) == f @@ [seen |-> {}]

\* the call f at the beginning of a start: its mapping is the only one seen
SeenFirst(f) == [f EXCEPT !.seen = {f.cur_mapping}]

\* the call f after a pass of the while loop: its mapping is seen as well
SeenNext(f) == [f EXCEPT !.seen = @ \cup {f.cur_mapping}]

\* the start of a restart, as StartRestart, the record begun
SeenStart(t, mappings) ==
  /\ fr[t].pc = "init"
  /\ fr[t].i < iteration_num
  /\ \E cur_mapping \in mappings :
       /\ match_triple_dict' =
            compute_match(cur_mapping, fr[t].weight_dict, match_triple_dict).memo
       /\ fr' = [fr EXCEPT ![t] =
                   SeenFirst(Started(@, cur_mapping,
                                     compute_match(cur_mapping, @.weight_dict,
                                                   match_triple_dict)))]
  /\ UNCHANGED <<iteration_num, single_score, pr_flag, args, drv, sim>>

\* restart 0: smart initialization
SeenSmartStart(t) ==
  /\ fr[t].i = 0
  /\ SeenStart(t, smart_init_mapping(fr[t].candidate_mappings,
                                     fr[t].instance1, fr[t].instance2))

\* the other restarts: random initialization
SeenRandomStart(t) ==
  /\ fr[t].i # 0
  /\ SeenStart(t, random_init_mapping(fr[t].candidate_mappings))

\* one pass of the while loop that finds a gain, as ClimbStep, the new mapping
\* recorded
SeenStep(t) ==
  /\ fr[t].pc = "climb"
  /\ Improves(BestGain(fr[t], match_triple_dict).largest_gain)
  /\ match_triple_dict' = BestGain(fr[t], match_triple_dict).memo
  /\ fr' = [fr EXCEPT ![t] = SeenNext(Climbed(@, BestGain(@, match_triple_dict)))]
  /\ UNCHANGED <<iteration_num, single_score, pr_flag, args, drv, sim>>

InitLive ==
  /\ match_triple_dict = << >>
  /\ iteration_num = MaxRestarts + 1
  /\ single_score = TRUE
  /\ pr_flag = FALSE
  /\ \E ws \in WeightingSchemes : args = DefaultArgs(ws)
  /\ \E g1 \in Graphs, g2 \in Graphs : fr = (1 :> Unseen(NewCall(g1, g2)))
  /\ drv = NoDriver
  /\ sim = NoSim

NextLive ==
  \/ \E t \in DOMAIN fr : ComputePool(t)
  \/ \E t \in DOMAIN fr : SeenSmartStart(t)
  \/ \E t \in DOMAIN fr : SeenRandomStart(t)
  \/ \E t \in DOMAIN fr : SeenStep(t)
  \/ \E t \in DOMAIN fr : ClimbStop(t)
  \/ \E t \in DOMAIN fr : Return(t)

\* weak fairness of NextLive, its enabling condition written out: a step of
\* NextLive can be taken exactly when some call has not returned
Fairness ==
  \/ []<>(\A t \in DOMAIN fr : fr[t].pc = "done")
  \/ []<><<NextLive>>_vars

\* the call is sequential code that runs on: a statement that can be executed
\* is executed
SpecLive == InitLive /\ [][NextLive]_vars /\ Fairness

\* ------------------------------------------------------------------------
\* SpecFrame: the search operations on mapping lists held by reference, a
\* slice mapping[:] being a new list and an item assignment a write to the
\* list the name refers to
\* ------------------------------------------------------------------------

\* a name bound to the list it already refers to
SameList(heap, ref) == [ref |-> ref, heap |-> heap]

\* mapping[:]: a new list with the items of the list ref
list_copy(heap, ref) == [ref |-> Len(heap) + 1, heap |-> Append(heap, heap[ref])]

\* "l[i] = v" on the list c.ref
SetItem(c, i, v) == [ref |-> c.ref, heap |-> [c.heap EXCEPT ![c.ref][i] = v]]

\* the result r of a gain function with the heap it leaves
WithHeap(r, heap) == r @@ [heap |-> heap]

\* move_gain from the lookup on, n being new_mapping_list
MoveGainOf(n, mapping, node_id, old_id, new_id, weight_dict, match_num, memo) ==
  IF n.heap[n.ref] \in DOMAIN memo
  THEN WithHeap(MemoGain(memo, n.heap[n.ref], match_num), n.heap)
  ELSE WithHeap(StoreGain(memo, n.heap[n.ref], match_num,
                          PairScore(<<node_id, new_id>>, n.heap[n.ref], weight_dict, {})
                          - PairScore(<<node_id, old_id>>, n.heap[mapping],
                                      weight_dict, {})),
                n.heap)

\* move_gain on the list mapping: "new_mapping_list = mapping[:]",
\* "new_mapping_list[node_id] = new_id", and the rest
move_gain_ref(heap, mapping, node_id, old_id, new_id, weight_dict, match_num, memo) ==
  MoveGainOf(SetItem(list_copy(heap, mapping), node_id, new_id),
             mapping, node_id, old_id, new_id, weight_dict, match_num, memo)

\* the gain swap_gain computes, n being new_mapping_list
SwapSumOf(n, mapping, node_id1, mapping_id1, node_id2, mapping_id2, weight_dict) ==
  IF node_id1 > node_id2
  THEN SwapSum(n.heap[mapping], n.heap[n.ref],
               <<node_id2, mapping_id1>>, <<node_id1, mapping_id2>>,
               <<node_id2, mapping_id2>>, <<node_id1, mapping_id1>>,
               node_id1, weight_dict)
  ELSE SwapSum(n.heap[mapping], n.heap[n.ref],
               <<node_id1, mapping_id2>>, <<node_id2, mapping_id1>>,
               <<node_id1, mapping_id1>>, <<node_id2, mapping_id2>>,
               node_id1, weight_dict)

\* swap_gain from the lookup on, n being new_mapping_list
SwapGainOf(n, mapping, node_id1, mapping_id1, node_id2, mapping_id2, weight_dict, match_num, memo) ==
  IF n.heap[n.ref] \in DOMAIN memo
  THEN WithHeap(MemoGain(memo, n.heap[n.ref], match_num), n.heap)
  ELSE WithHeap(StoreGain(memo, n.heap[n.ref], match_num,
                          SwapSumOf(n, mapping, node_id1, mapping_id1, node_id2,
                                    mapping_id2, weight_dict)),
                n.heap)

\* swap_gain on the list mapping: "new_mapping_list = mapping[:]", the two
\* item assignments, and the rest
swap_gain_ref(heap, mapping, node_id1, mapping_id1, node_id2, mapping_id2, weight_dict, match_num, memo) ==
  SwapGainOf(SetItem(SetItem(list_copy(heap, mapping), node_id1, mapping_id2),
                     node_id2, mapping_id1),
             mapping, node_id1, mapping_id1, node_id2, mapping_id2, weight_dict,
             match_num, memo)

\* KeepLargest with the heap the call left
KeepLargestRef(st, r, n1, n2, swap, by, from, key) ==
  WithHeap(KeepLargest(st, r, n1, n2, swap, by, from, key), r.heap)

RECURSIVE MoveLoopRef(_, _, _, _, _, _)
\* the move loop of get_best_gain on the list mapping, from the k-th call on
MoveLoopRef(moves, k, mapping, weight_dict, cur_match_num, st) ==
  IF k > Len(moves) THEN st
  ELSE MoveLoopRef(moves, k + 1, mapping, weight_dict, cur_match_num,
                   KeepLargestRef(st,
                                  move_gain_ref(st.heap, mapping, moves[k][1],
                                                st.heap[mapping][moves[k][1]],
                                                moves[k][2], weight_dict,
                                                cur_match_num, st.memo),
                                  moves[k][1], moves[k][2], FALSE, "move_gain",
                                  st.heap[mapping],
                                  Moved(st.heap[mapping], moves[k][1], moves[k][2])))

RECURSIVE SwapLoopRef(_, _, _, _, _, _)
\* the swap loop of get_best_gain on the list mapping, from the k-th call on
SwapLoopRef(swaps, k, mapping, weight_dict, cur_match_num, st) ==
  IF k > Len(swaps) THEN st
  ELSE SwapLoopRef(swaps, k + 1, mapping, weight_dict, cur_match_num,
                   KeepLargestRef(st,
                                  swap_gain_ref(st.heap, mapping, swaps[k][1],
                                                st.heap[mapping][swaps[k][1]],
                                                swaps[k][2],
                                                st.heap[mapping][swaps[k][2]],
                                                weight_dict, cur_match_num, st.memo),
                                  swaps[k][1], swaps[k][2], TRUE, "swap_gain",
                                  st.heap[mapping],
                                  Swapped(st.heap[mapping], swaps[k][1],
                                          st.heap[mapping][swaps[k][1]], swaps[k][2],
                                          st.heap[mapping][swaps[k][2]])))

\* the end of get_best_gain on the copy c: the swap or the move is written
\* into cur_mapping
ApplyBestRef(c, st) ==
  IF st.node1 # << >>
  THEN IF st.use_swap
       THEN SetItem(SetItem(c, st.node1[1], c.heap[c.ref][st.node2[1]]),
                    st.node2[1], c.heap[c.ref][st.node1[1]])
       ELSE SetItem(c, st.node1[1], st.node2[1])
  ELSE c

\* "return largest_gain, cur_mapping": the list returned, the heap and the memo
BestResultRef(st, c) ==
  [largest_gain |-> st.largest_gain, cur_mapping |-> c.ref, heap |-> c.heap,
   memo |-> st.memo]

\* get_best_gain from "cur_mapping = mapping[:]" on
BestOfLoops(mapping, st) ==
  BestResultRef(st, ApplyBestRef(list_copy(st.heap, mapping), st))

\* get_best_gain on the list mapping
get_best_gain_ref(heap, mapping, candidate_mappings, weight_dict, instance_len, cur_match_num, memo) ==
  BestOfLoops(mapping,
              SwapLoopRef(SwapList(PyLen(heap[mapping]), 0, 1), 1, mapping, weight_dict,
                          cur_match_num,
                          MoveLoopRef(MoveList(heap[mapping], candidate_mappings,
                                               instance_len, 0),
                                      1, mapping, weight_dict, cur_match_num,
                                      [largest_gain |-> 0, node1 |-> << >>,
                                       node2 |-> << >>, use_swap |-> TRUE,
                                       memo |-> memo, log |-> {}, heap |-> heap])))

\* a restart of get_best_match on the pool p with the list m as cur_mapping
FrameStart(p, m, instance_len) ==
  [pc |-> "start", heap |-> <<m>>, mapping |-> 1, arg |-> 0, result |-> 0,
   candidate_mappings |-> p.candidate_mapping, weight_dict |-> p.weight_dict,
   instance_len |-> instance_len, match_num |-> 0, steps |-> 0]

InitFrame ==
  /\ match_triple_dict = << >>
  /\ iteration_num = MaxRestarts + 1
  /\ single_score = TRUE
  /\ pr_flag = FALSE
  /\ args = DefaultArgs("standard")
  /\ fr = << >>
  /\ drv = NoDriver
  /\ \E g1 \in Graphs, g2 \in Graphs :
       \E m \in Mappings(PyLen(g1.instance), PyLen(g2.instance)) :
         sim = FrameStart(compute_pool(g1.instance, g1.attribute, g1.relation,
                                       g2.instance, g2.attribute, g2.relation, args),
                          m, PyLen(g2.instance))

\* "match_num = compute_match(cur_mapping, weight_dict)"
ComputeMatchRef ==
  /\ sim.pc = "start"
  /\ match_triple_dict' =
       compute_match(sim.heap[sim.mapping], sim.weight_dict, match_triple_dict).memo
  /\ sim' = [sim EXCEPT !.pc = "climb",
                        !.match_num = compute_match(sim.heap[sim.mapping], sim.weight_dict,
                                                    match_triple_dict).match_num]
  /\ UNCHANGED <<iteration_num, single_score, pr_flag, args, fr, drv>>

\* the restart after get_best_gain returned g on the list s.mapping: break, or
\* "match_num += gain; cur_mapping = new_mapping[:]"
AfterGain(s, g, c) ==
  IF Improves(g.largest_gain)
  THEN [s EXCEPT !.heap = c.heap, !.mapping = c.ref, !.arg = s.mapping,
                 !.result = g.cur_mapping, !.match_num = @ + g.largest_gain,
                 !.steps = @ + 1]
  ELSE [s EXCEPT !.pc = "stopped", !.heap = g.heap, !.arg = s.mapping,
                 !.result = g.cur_mapping]

\* the call of get_best_gain with what the restart did with its result
GainCall(s, g) == AfterGain(s, g, list_copy(g.heap, g.cur_mapping))

\* one pass of the while loop of get_best_match
GetBestGainRef ==
  /\ sim.pc = "climb"
  /\ match_triple_dict' =
       get_best_gain_ref(sim.heap, sim.mapping, sim.candidate_mappings, sim.weight_dict,
                         sim.instance_len, sim.match_num, match_triple_dict).memo
  /\ sim' = GainCall(sim, get_best_gain_ref(sim.heap, sim.mapping, sim.candidate_mappings,
                                            sim.weight_dict, sim.instance_len,
                                            sim.match_num, match_triple_dict))
  /\ UNCHANGED <<iteration_num, single_score, pr_flag, args, fr, drv>>

NextFrame ==
  \/ ComputeMatchRef
  \/ GetBestGainRef

SpecFrame == InitFrame /\ [][NextFrame]_vars

\* ------------------------------------------------------------------------
\* Properties
\* ------------------------------------------------------------------------

\* the score compute_match derives for a mapping from scratch (empty memo)
ScoreOf(mapping, weight_dict) == compute_match(mapping, weight_dict, << >>).match_num

\* the values of a mapping other than -1
Mapped(m) == {i \in DOMAIN m : m[i] # -1}

\* C1: every memo entry that move_gain or swap_gain wrote holds the score
\* compute_match derives for that mapping from scratch
MemoSoundC1 ==
  \A t \in DOMAIN fr :
    \A w \in fr[t].log :
      w.by \in {"move_gain", "swap_gain"} =>
        /\ w.key \in DOMAIN match_triple_dict
        /\ match_triple_dict[w.key] = ScoreOf(w.key, fr[t].weight_dict)

\* a call of get_best_gain wrote an entry by a MOVE of an unmapped node and an
\* entry by a SWAP of an unmapped node with a mapped one
MoveFromUnmappedC1 ==
  \E t \in DOMAIN fr :
    \E w1 \in fr[t].log, w2 \in fr[t].log :
      /\ w1.by = "move_gain"
      /\ \E i \in DOMAIN w1.from : w1.from[i] = -1 /\ w1.key[i] # -1
      /\ w2.by = "swap_gain"
      /\ \E i \in DOMAIN w2.from : w2.from[i] = -1 /\ w2.key[i] # -1

\* whether a call of get_best_match ran on a graph against itself
SameGraph(f) ==
  /\ f.instance1 = f.instance2
  /\ f.attribute1 = f.attribute2
  /\ f.relation1 = f.relation2

\* C2: get_best_match on a graph against itself returns the number of triples
\* of the graph as match count, and compute_f on it gives F = 1
SelfMatchC2 ==
  \A t \in DOMAIN fr :
    fr[t].pc = "done" /\ SameGraph(fr[t]) =>
      /\ fr[t].best_match_num = One * TestTripleNum(fr[t])
      /\ compute_f(fr[t].best_match_num, TestTripleNum(fr[t]),
                   GoldTripleNum(fr[t])).f_score = [num |-> 1, den |-> 1]

\* C3: a call of get_best_match interleaved with another returns what it
\* returns alone, the score of the mapping it returns: it reads no memo entry
\* of the other call
IsolatedC3 ==
  \A t \in DOMAIN fr :
    fr[t].pc = "done" =>
      fr[t].best_match_num = ScoreOf(fr[t].best_mapping, fr[t].weight_dict)

\* C4: when get_best_match starts under a driver, the memo is empty
FreshMemoC4 ==
  drv.kind \in {"main", "lists"} =>
    \A t \in DOMAIN fr : fr[t].pc = "pool" => match_triple_dict = << >>

\* main starts get_best_match on a later pair right after it skipped a pair
\* that did not parse
StartAfterSkipC4 ==
  /\ drv.kind = "main"
  /\ drv.sent_num > 1
  /\ drv.out # << >>
  /\ drv.out[Len(drv.out)].line = "Smatch score F1: NA_WRONG_AMR"
  /\ 1 \in DOMAIN fr
  /\ fr[1].pc = "pool"

\* SelfScore of a node pair: 0 when the pair has no entry
SelfScore(weight_dict, p) == IF p \in DOMAIN weight_dict THEN weight_dict[p].self ELSE 0

\* the relation count of the node pairs p and q: 0 when there is no entry
RelCount(weight_dict, p, q) ==
  IF p \in DOMAIN weight_dict /\ q \in DOMAIN weight_dict[p].rel
  THEN weight_dict[p].rel[q]
  ELSE 0

\* the sum of SelfScore over the mapped nodes of m
SelfSum(m, weight_dict) ==
  SumFn(Mapped(m), [i \in Mapped(m) |-> SelfScore(weight_dict, <<i, m[i]>>)])

\* the sum of the relation counts over the unordered pairs of mapped nodes of m
PairSum(m, weight_dict) ==
  SumFn({p \in Mapped(m) \X Mapped(m) : p[1] < p[2]},
        [p \in Mapped(m) \X Mapped(m) |->
           RelCount(weight_dict, <<p[1], m[p[1]]>>, <<p[2], m[p[2]]>>)])

\* C5: on an empty memo compute_match returns the self scores of the mapped
\* nodes plus the relation count of every unordered pair of mapped nodes, once
MatchSumC5 ==
  \A t \in DOMAIN fr :
    fr[t].pc # "pool" =>
      \A m \in Mappings(PyLen(fr[t].instance1), PyLen(fr[t].instance2)) :
        ScoreOf(m, fr[t].weight_dict)
          = SelfSum(m, fr[t].weight_dict) + PairSum(m, fr[t].weight_dict)

\* a mapping whose score has a self score part and a relation part
RelationCountedC5 ==
  \E t \in DOMAIN fr :
    /\ fr[t].pc # "pool"
    /\ \E m \in Mappings(PyLen(fr[t].instance1), PyLen(fr[t].instance2)) :
         /\ SelfSum(m, fr[t].weight_dict) > 0
         /\ PairSum(m, fr[t].weight_dict) > 0

\* C6: after compute_pool, W[P] has a relation entry for Q with count k iff
\* W[Q] has a relation entry for P with count k
SymmetricC6 ==
  \A t \in DOMAIN fr :
    \A p \in DOMAIN fr[t].weight_dict :
      \A q \in DOMAIN fr[t].weight_dict[p].rel :
        /\ q \in DOMAIN fr[t].weight_dict
        /\ p \in DOMAIN fr[t].weight_dict[q].rel
        /\ fr[t].weight_dict[q].rel[p] = fr[t].weight_dict[p].rel[q]

\* compute_pool stored a relation entry that two relation pairs added to
CountTwoC6 ==
  \E t \in DOMAIN fr :
    /\ fr[t].pc = "init"
    /\ \E p \in DOMAIN fr[t].weight_dict :
         \E q \in DOMAIN fr[t].weight_dict[p].rel :
           fr[t].weight_dict[p].rel[q] = 2 * One

\* sim of two labels under the configuration c, as compute_pool asks for it
SimOf(a, b, c) ==
  maybe_sim(Lower(a), Lower(b), c.vectors, c.cutoff, c.diffsense, c.simfun, "split")

\* whether the pair (i, j) can yield a positive contribution: the concepts are
\* similar, or an attribute pair on (i, j) adds a positive amount, or (i, j) is
\* an endpoint alignment of a pair of relations with the same label
CanContribute(f, i, j, c) ==
  \/ SimOf(f.instance1[i][3], f.instance2[j][3], c) > 0
  \/ \E x \in DOMAIN f.attribute1, y \in DOMAIN f.attribute2 :
       /\ f.attribute1[x][2] = i /\ f.attribute2[y][2] = j
       /\ Lower(f.attribute1[x][1]) = Lower(f.attribute2[y][1])
       /\ \/ Lower(f.attribute1[x][3]) = Lower(f.attribute2[y][3])
          \/ /\ Lower(f.attribute1[x][1]) = TOP_LABEL
             /\ SimOf(f.attribute1[x][3], f.attribute2[y][3], c) > 0
  \/ \E x \in DOMAIN f.relation1, y \in DOMAIN f.relation2 :
       /\ Lower(f.relation1[x][1]) = Lower(f.relation2[y][1])
       /\ \/ <<f.relation1[x][2], f.relation2[y][2]>> = <<i, j>>
          \/ <<f.relation1[x][3], f.relation2[y][3]>> = <<i, j>>

\* C7: after compute_pool, j is in the candidate list of i only if the pair
\* (i, j) can yield a positive contribution
PositiveCandidatesC7 ==
  \A t \in DOMAIN fr :
    fr[t].pc = "init" =>
      \A i \in DOMAIN fr[t].candidate_mappings :
        \A j \in fr[t].candidate_mappings[i] : CanContribute(fr[t], i, j, args)

\* C8: within a restart every pass of the while loop that changes the mapping
\* raises match_num by a gain above the threshold, and the pass that ends the
\* restart changes neither the mapping nor match_num
MonotoneC8 ==
  [][\A t \in DOMAIN fr :
       t \in DOMAIN fr' /\ fr[t].pc = "climb" /\ fr'[t] # fr[t] =>
         IF fr'[t].pc = "climb"
         THEN /\ fr'[t].gain > GainThreshold
              /\ fr'[t].match_num = fr[t].match_num + fr'[t].gain
              /\ fr'[t].match_num > fr[t].match_num
         ELSE /\ fr'[t].match_num = fr[t].match_num
              /\ fr'[t].cur_mapping = fr[t].cur_mapping]_vars

\* a restart accepted a step
AcceptedStepC8 ==
  \E t \in DOMAIN fr : fr[t].pc = "climb" /\ fr[t].steps > 0 /\ fr[t].gain > 0

\* a list of length n1 with entries in [0, n2) or -1, injective on the
\* entries other than -1
WellFormed(m, n1, n2) ==
  /\ DOMAIN m = Range(n1)
  /\ \A i \in DOMAIN m : m[i] \in Range(n2) \cup {-1}
  /\ \A i, j \in DOMAIN m : i # j /\ m[i] # -1 => m[i] # m[j]

\* C9: the initial mapping of a restart, every mapping a step produces, every
\* mapping scored, and the mapping returned are well-formed
MappingsWellFormedC9 ==
  \A t \in DOMAIN fr :
    /\ fr[t].pc = "climb" =>
         WellFormed(fr[t].cur_mapping, PyLen(fr[t].instance1), PyLen(fr[t].instance2))
    /\ fr[t].pc \in {"init", "climb", "done"} =>
         WellFormed(fr[t].best_mapping, PyLen(fr[t].instance1), PyLen(fr[t].instance2))
    /\ \A w \in fr[t].log :
         WellFormed(w.key, PyLen(fr[t].instance1), PyLen(fr[t].instance2))

\* get_best_match returns after a restart whose steps led to a mapping with an
\* unmapped node
ReturnedAfterStepC9 ==
  \E t \in DOMAIN fr :
    /\ fr[t].pc = "done"
    /\ fr[t].steps > 0
    /\ \E i \in DOMAIN fr[t].cur_mapping : fr[t].cur_mapping[i] = -1
    /\ \E i \in DOMAIN fr[t].best_mapping : fr[t].best_mapping[i] # -1

\* C10: maybe_sim returns a value in [0, 1], 1 on equal labels, and 0 on
\* different labels when a vector is missing and no sense rule fires
KernelRangeC10 ==
  sim.pc = "out" =>
    /\ 0 <= sim.result /\ sim.result <= One
    /\ sim.a = sim.b => sim.result = One
    /\ /\ sim.a # sim.b
       /\ ~ SenseRuleFires(sim.a, sim.b, WoSense(sim.a), WoSense(sim.b))
       /\ \/ BaseVec(sim.a, WoSense(sim.a), sim.vecs, sim.mwp) = << >>
          \/ BaseVec(sim.b, WoSense(sim.b), sim.vecs, sim.mwp) = << >>
       => sim.result = 0

\* maybe_sim returned a graded similarity with the sense discount
DiscountedC10 ==
  /\ sim.pc = "out"
  /\ sim.a # sim.b
  /\ Truthy(WoSense(sim.a))
  /\ ~ SenseRuleFires(sim.a, sim.b, WoSense(sim.a), WoSense(sim.b))
  /\ 0 < sim.result /\ sim.result < sim.diffsense
\* whether maybe_sim computed a stripped form for the label x
HasSense(x) == WoSense(x) # << >>

\* the two cases of the string rules: both labels have a sense and the same
\* stripped form, or exactly one has a sense and its stripped form is the other
SenseCase(a, b) ==
  \/ HasSense(a) /\ HasSense(b) /\ WoSense(a) = WoSense(b)
  \/ HasSense(a) /\ ~ HasSense(b) /\ WoSense(a)[1] = b
  \/ HasSense(b) /\ ~ HasSense(a) /\ WoSense(b)[1] = a

\* what the vector steps of maybe_sim give for the call s
VectorSteps(s) ==
  SimOfVecs(s.a, s.b, WoSense(s.a), WoSense(s.b),
            BaseVec(s.a, WoSense(s.a), s.vecs, s.mwp),
            BaseVec(s.b, WoSense(s.b), s.vecs, s.mwp),
            s.vecs, s.cutoff, s.diffsense, s.simfun)

\* C11: on different labels maybe_sim returns diffsense by the string rules in
\* the two cases of SenseCase, and what the vector steps give in every other
\* case
StringRulesC11 ==
  sim.pc = "out" /\ sim.a # sim.b =>
    sim.result = IF SenseCase(sim.a, sim.b) THEN sim.diffsense ELSE VectorSteps(sim)

\* C12: the stripped form maybe_sim works with is the label without its final
\* -DD when the label ends in a hyphen and digits, and None for any other label
SenseSuffixC12 ==
  sim.pc = "out" =>
    /\ WoSense(sim.a) = Stripped(sim.a)
    /\ WoSense(sim.b) = Stripped(sim.b)
\* whether the label x has no sense and is not itself in the vocabulary
Unlisted(x, vecs) == WoSense(x) = << >> /\ x \notin DOMAIN vecs

\* C13: under a strategy other than split, the pool gives a label that has no
\* sense and is not in the vocabulary a similarity of 0 against every
\* different label
NoSplitC13 ==
  \A t \in DOMAIN fr :
    fr[t].pc = "init" /\ args.mwp # "split" =>
      \A i \in DOMAIN fr[t].instance1, j \in DOMAIN fr[t].instance2 :
        /\ fr[t].instance1[i][3] # fr[t].instance2[j][3]
        /\ \/ Unlisted(fr[t].instance1[i][3], args.vectors)
           \/ Unlisted(fr[t].instance2[j][3], args.vectors)
        => fr[t].weight_dict[<<i, j>>].self = 0

\* C14: every lookup returns what maybe_sim returns for its two labels, and a
\* lookup the cache answers is answered from an entry the same two labels
\* stored
TransparentC14 ==
  sim.pc = "cache" /\ sim.n > 0 =>
    /\ sim.s = maybe_sim(sim.a, sim.b, args.vectors, args.cutoff, args.diffsense,
                         args.simfun, args.mwp)
    /\ sim.hit # << >> => sim.owner[sim.hit[1]] = {sim.a, sim.b}

\* the similarity simfun gives for the two vectors of the call s, each with its
\* third-person extension
VectorSim(s) ==
  ApplySimFun(s.simfun,
              ExtendedVec(s.a, WoSense(s.a), BaseVec(s.a, WoSense(s.a), s.vecs, s.mwp)[1],
                          s.vecs),
              ExtendedVec(s.b, WoSense(s.b), BaseVec(s.b, WoSense(s.b), s.vecs, s.mwp)[1],
                          s.vecs))

\* whether both labels of the call s have a vector and no string rule fires
VectorCase(s) ==
  /\ s.a # s.b
  /\ ~ SenseRuleFires(s.a, s.b, WoSense(s.a), WoSense(s.b))
  /\ BaseVec(s.a, WoSense(s.a), s.vecs, s.mwp) # << >>
  /\ BaseVec(s.b, WoSense(s.b), s.vecs, s.mwp) # << >>

\* the result for a similarity x: 0 at or below the cutoff, x * diffsense when
\* a label has a sense, x otherwise
CutAndDiscount(x, sensed, cutoff, diffsense) ==
  IF x <= cutoff THEN 0
  ELSE IF sensed THEN (x * diffsense) \div One
  ELSE x

\* C15: when both vectors exist and no string rule fires, maybe_sim returns 0
\* for a similarity at or below cutoff, the similarity times diffsense when one
\* of the labels has a sense, and the similarity when neither has
GradedStepC15 ==
  sim.pc = "out" /\ VectorCase(sim) =>
    sim.result = CutAndDiscount(VectorSim(sim),
                                Truthy(WoSense(sim.a)) \/ Truthy(WoSense(sim.b)),
                                sim.cutoff, sim.diffsense)

\* maybe_sim zeroed a positive similarity that does not exceed the cutoff
ZeroedC15 ==
  /\ sim.pc = "out"
  /\ VectorCase(sim)
  /\ VectorSim(sim) > 0
  /\ VectorSim(sim) <= sim.cutoff
  /\ sim.result = 0

\* the pool compute_pool builds for the graphs of the call f under the
\* configuration c with the standard weighting
StandardPool(f, c) ==
  compute_pool(f.instance1, f.attribute1, f.relation1,
               f.instance2, f.attribute2, f.relation2,
               [c EXCEPT !.weighting_scheme = "standard"])

\* the similarity of the concepts of the node pair p of the call f
ConceptSim(f, p, c) == SimOf(f.instance1[p[1]][3], f.instance2[p[2]][3], c)

\* whether the pool of the call f differs from the pool std only by the
\* instance similarity counting three times in SelfScore
ThreefoldConcept(f, std, c) ==
  /\ f.candidate_mappings = std.candidate_mapping
  /\ DOMAIN f.weight_dict = DOMAIN std.weight_dict
  /\ \A p \in DOMAIN f.weight_dict :
       /\ f.weight_dict[p].rel = std.weight_dict[p].rel
       /\ f.weight_dict[p].self - 3 * ConceptSim(f, p, c)
            = std.weight_dict[p].self - ConceptSim(f, p, c)

\* C16: the pool built with the weighting concept differs from the pool built
\* with standard for the same graphs only in the instance similarity counting
\* three times in SelfScore; attribute parts, relation entries and candidates
\* are the same
WeightingC16 ==
  \A t \in DOMAIN fr :
    fr[t].pc = "init" /\ args.weighting_scheme = "concept" =>
      ThreefoldConcept(fr[t], StandardPool(fr[t], args), args)

\* a pool built with the weighting concept holds a node pair with a positive
\* instance similarity, an attribute part and a relation entry
WeightedPairC16 ==
  \E t \in DOMAIN fr :
    /\ fr[t].pc = "init"
    /\ args.weighting_scheme = "concept"
    /\ \E p \in DOMAIN fr[t].weight_dict :
         /\ ConceptSim(fr[t], p, args) > 0
         /\ fr[t].weight_dict[p].self > 3 * ConceptSim(fr[t], p, args)
         /\ fr[t].weight_dict[p].rel # << >>

\* whether the fraction x is num/den
IsRatio(x, num, den) == x.den > 0 /\ x.num * den = num * x.den

\* whether f is 2pr/(p+r) for p = pn/pd and r = rn/rd with p + r > 0
IsHarmonic(f, pn, pd, rn, rd) ==
  /\ f.den > 0
  /\ f.num * (pn * rd + rn * pd) = 2 * pn * rn * f.den

\* whether r is what compute_f is to return for the match number m (in
\* thousandths) and the triple counts t and g
IsFScore(r, m, t, g) ==
  IF t = 0 \/ g = 0 \/ m * g + m * t = 0
  THEN r.precision.num = 0 /\ r.recall.num = 0 /\ r.f_score.num = 0
  ELSE /\ IsRatio(r.precision, m, t * One)
       /\ IsRatio(r.recall, m, g * One)
       /\ IsHarmonic(r.f_score, m, t * One, m, g * One)

\* C17: compute_f returns p = match/t, r = match/g and F = 2pr/(p+r) when t > 0,
\* g > 0 and p + r > 0, and 0 for all three when t = 0 or g = 0 or p + r = 0
FScoreC17 ==
  sim.pc = "f_out" => IsFScore(sim.result[1], sim.match_num, sim.test_num, sim.gold_num)

\* compute_f returned an F-score strictly between a precision and a recall
\* that differ
BetweenC17 ==
  /\ sim.pc = "f_out"
  /\ sim.test_num > sim.gold_num
  /\ sim.gold_num > 0
  /\ sim.match_num > 0
  /\ sim.result[1].precision.num * sim.result[1].f_score.den
       < sim.result[1].f_score.num * sim.result[1].precision.den
  /\ sim.result[1].f_score.num * sim.result[1].recall.den
       < sim.result[1].recall.num * sim.result[1].f_score.den

\* the three totals of the driver d
Totals(d) == <<d.total_match_num_soft, d.total_test_num, d.total_gold_num>>

\* the totals t raised by the counts of the finished call f
Raised(t, f) == <<t[1] + f.best_match_num, t[2] + TestTripleNum(f), t[3] + GoldTripleNum(f)>>

\* the document score of a driver that is done: the value of the last line
\* main printed, the F-score compute_s2match_from_two_lists returned
DocumentScore(d) ==
  IF d.kind = "main" THEN d.out[Len(d.out)].value ELSE d.result[1].f_score

\* C18: in corpus mode the totals change only when a call of get_best_match
\* returns, then by the best match number and the two triple counts of that
\* pair, and the document score is compute_f of the totals
SummedCountsC18 ==
  [][drv.kind \in {"main", "lists"} /\ single_score =>
       /\ Totals(drv') = IF drv.pc = "call" /\ drv'.pc # "call"
                         THEN Raised(Totals(drv), fr[1])
                         ELSE Totals(drv)
       /\ drv.pc # "done" /\ drv'.pc = "done" =>
            DocumentScore(drv') = compute_f(drv.total_match_num_soft, drv.total_test_num,
                                            drv.total_gold_num).f_score]_vars

\* main in corpus mode reported 0.6 for two pairs of 3 and 2 triples, the first
\* matched in full and the second not at all
NotTheMeanC18 ==
  /\ drv.kind = "main"
  /\ drv.pc = "done"
  /\ single_score
  /\ drv.sent_num = 3
  /\ Totals(drv) = <<3 * One, 5, 5>>
  /\ DocumentScore(drv) = [num |-> 3, den |-> 5]

\* whether the next pair of main has an AMR the parser rejects
Rejected(d) ==
  /\ d.kind = "main" /\ d.pc = "loop"
  /\ d.in1 # << >> /\ d.in2 # << >>
  /\ Head(d.in1) = << >> \/ Head(d.in2) = << >>

\* C19: on a pair with a rejected AMR main prints the NA_WRONG_AMR line, leaves
\* the totals and the memo as they are, starts no comparison and goes on with
\* the loop; the two streams always move on together, one record each
SkippedPairC19 ==
  [][/\ Rejected(drv) =>
          /\ Len(drv'.out) = Len(drv.out) + 1
          /\ drv'.out[Len(drv'.out)].line = "Smatch score F1: NA_WRONG_AMR"
          /\ SubSeq(drv'.out, 1, Len(drv.out)) = drv.out
          /\ Totals(drv') = Totals(drv)
          /\ drv'.sent_num = drv.sent_num
          /\ match_triple_dict' = match_triple_dict
          /\ fr' = fr
          /\ drv'.pc = "loop"
     /\ drv.kind = "main" /\ (drv'.in1 # drv.in1 \/ drv'.in2 # drv.in2) =>
          /\ drv'.in1 = Tail(drv.in1)
          /\ drv'.in2 = Tail(drv.in2)]_vars

\* main in per-pair mode skipped the first pair and compared the second, with
\* records left to read
ComparedAfterSkipC19 ==
  /\ drv.kind = "main"
  /\ Len(drv.out) >= 2
  /\ drv.out[1].line = "Smatch score F1: NA_WRONG_AMR"
  /\ drv.out[2].line = "Smatch score F1"
  /\ drv.sent_num = 2
  /\ drv.in1 # << >>

\* whether exactly one of the two streams of the driver d is at its end
Mismatch(d) == (d.in1 = << >>) # (d.in2 = << >>)

\* C20: when one stream of main is at its end before the other, main leaves
\* the loop without reading a record or changing the totals, and then reports
\* as document score the F-score of the totals
MismatchC20 ==
  [][drv.kind = "main" /\ Mismatch(drv) =>
       /\ drv.pc = "loop" =>
            /\ drv'.pc = "report"
            /\ drv'.in1 = drv.in1 /\ drv'.in2 = drv.in2
            /\ Totals(drv') = Totals(drv)
            /\ fr' = fr
       /\ drv.pc = "report" =>
            /\ drv'.pc = "done"
            /\ DocumentScore(drv') = compute_f(drv.total_match_num_soft, drv.total_test_num,
                                               drv.total_gold_num).f_score]_vars

\* ------------------------------------------------------------------------
\* C21
\* ------------------------------------------------------------------------

\* the driver was given a name get_sim_fun does not know, or a weighting
\* scheme that is none of the three
BadConfig(d) ==
  \/ d.arguments.similarityfunction \notin SimFunNames
  \/ d.arguments.weighting_scheme \notin WeightingSchemes

\* the printed lines of a driver that show a score
ScoreLines(d) ==
  {k \in DOMAIN d.out : d.out[k].line # "Smatch score F1: NA_WRONG_AMR"}

\* C21: under an unknown similarityfunction or weighting_scheme the run is
\* rejected: no call of get_best_match returns, no pair is counted, no score
\* is printed and none is returned, whatever the inputs are
RejectedConfigC21 ==
  BadConfig(drv) =>
    /\ \A t \in DOMAIN fr : fr[t].pc # "done"
    /\ drv.sent_num = 1
    /\ ScoreLines(drv) = {}
    /\ drv.result = << >>

\* ------------------------------------------------------------------------
\* C22
\* ------------------------------------------------------------------------

\* the driver was given no path of vectors
NoPath(d) == d.arguments.vectors = ""

\* the driver was given a path that cannot be opened
Unreadable(d) == ~ NoPath(d) /\ d.arguments.vectors \notin DOMAIN VectorFiles

\* the concept labels of the two graphs of a call of get_best_match
ConceptsOf(f) ==
  {Lower(f.instance1[i][3]) : i \in DOMAIN f.instance1}
    \cup {Lower(f.instance2[j][3]) : j \in DOMAIN f.instance2}

\* the similarity of identity and sense rules only
IdentityOrSense(a, b, diffsense) ==
  IF a = b THEN One
  ELSE IF SenseRuleFires(a, b, WoSense(a), WoSense(b)) THEN diffsense
  ELSE 0

\* C22: with no path or a path that cannot be opened the driver goes on with
\* an empty vocabulary: it does not end on the exception of open(), and for the
\* labels of every pair it compares the similarity is 1 on equal labels,
\* diffsense under a sense rule and 0 otherwise
EmptyVocabularyC22 ==
  (NoPath(drv) \/ Unreadable(drv)) /\ drv.pc # "start" =>
    /\ drv.pc # "FileNotFoundError"
    /\ args.vectors = << >>
    /\ \A t \in DOMAIN fr : \A a, b \in ConceptsOf(fr[t]) :
         SimOf(a, b, args) = IdentityOrSense(a, b, args.diffsense)

\* ------------------------------------------------------------------------
\* C23
\* ------------------------------------------------------------------------

\* C23: two runs of the same initialiser on the same pair, made after the
\* caller fixed the same seed, give the same initial mapping
SameSeedSameStartC23 ==
  sim.pc \in {"seed", "init"} =>
    \A m, n \in DOMAIN sim.runs :
      sim.runs[m].by = sim.runs[n].by /\ sim.runs[m].seed = sim.runs[n].seed =>
        sim.runs[m].mapping = sim.runs[n].mapping

\* ------------------------------------------------------------------------
\* C24
\* ------------------------------------------------------------------------

\* the initial mappings start number i of a call may begin with
StartMappings(f) ==
  IF f.i = 0 THEN smart_init_mapping(f.candidate_mappings, f.instance1, f.instance2)
  ELSE random_init_mapping(f.candidate_mappings)

\* C24: under the restarts setting R every call of get_best_match makes the
\* starts 0..R and no other: start 0 begins with a mapping of
\* smart_init_mapping, every later start with one of random_init_mapping, and
\* the call returns after start R, whichever driver made the call
RestartsC24 ==
  [][\A t \in DOMAIN fr \cap DOMAIN fr' :
       /\ fr[t].pc = "init" /\ fr'[t].pc = "climb" =>
            /\ fr[t].i <= drv.arguments.r
            /\ fr'[t].cur_mapping \in StartMappings(fr[t])
       /\ fr[t].pc = "climb" /\ fr'[t].pc = "init" => fr'[t].i = fr[t].i + 1
       /\ fr[t].pc = "init" /\ fr'[t].pc = "done" => fr[t].i = drv.arguments.r + 1]_vars

\* ------------------------------------------------------------------------
\* C25
\* ------------------------------------------------------------------------

\* the positions of the printed lines of a driver with the given text
LinesOf(d, text) == {k \in DOMAIN d.out : d.out[k].line = text}

\* C25: main ends normally, and what it has printed at its end is, in
\* per-pair mode, one "Smatch score F1" line for each compared pair and no
\* "Document F-score" line, and in corpus mode one "Document F-score" line
\* with compute_f of the summed counts and no "Smatch score F1" line
OutputFormsC25 ==
  drv.kind = "main" =>
    /\ drv.pc # "UnboundLocalError"
    /\ drv.pc = "done" =>
         IF single_score
         THEN /\ LinesOf(drv, "Smatch score F1") = {}
              /\ \E k \in DOMAIN drv.out :
                   /\ LinesOf(drv, "Document F-score") = {k}
                   /\ drv.out[k].value = compute_f(drv.total_match_num_soft,
                                                   drv.total_test_num,
                                                   drv.total_gold_num).f_score
         ELSE /\ Cardinality(LinesOf(drv, "Smatch score F1")) = drv.sent_num - 1
              /\ LinesOf(drv, "Document F-score") = {}

\* ------------------------------------------------------------------------
\* C26
\* ------------------------------------------------------------------------

\* the six triple lists of a call of get_best_match
TripleLists(f) ==
  <<f.instance1, f.attribute1, f.relation1, f.instance2, f.attribute2, f.relation2>>

\* the last call of maybe_sim added the vector of the +s form of a label in
\* place before it called simfun
AddedInPlace(s) ==
  /\ s.n > 0
  /\ \E x \in {s.a, s.b} :
       /\ HasDash(x) /\ Truthy(WoSense(x))
       /\ WoSense(x)[1] \o <<"s">> \in DOMAIN s.vecs
  /\ CallsSimFun(s.a, s.b, args.vectors, args.mwp)

\* C26: after any sequence of calls of maybe_sim every word of the vocabulary
\* holds the vector it held when loaded, and no step of get_best_match changes
\* one of its six triple lists
ReadOnlyC26 ==
  /\ [](sim.pc = "heap" => Values(sim.vecs, sim.heap) = Values(HeapWords, HeapLoaded))
  /\ [][\A t \in DOMAIN fr \cap DOMAIN fr' : TripleLists(fr'[t]) = TripleLists(fr[t])]_vars

\* a call of maybe_sim has added a +s vector in place, and get_best_match has
\* returned
AugmentedC26 ==
  /\ sim.pc = "heap" /\ AddedInPlace(sim)
  /\ sim.s = (ApplySimFun(args.simfun, <<1, 1>>, <<3, 4>>) * args.diffsense) \div One
  /\ \E t \in DOMAIN fr : fr[t].pc = "done" /\ fr[t].steps > 0

\* ------------------------------------------------------------------------
\* C27
\* ------------------------------------------------------------------------

\* the mappings one MOVE away from the current mapping of a call: a node i is
\* remapped to a member of C[i] that no node maps to
MoveNeighbours(f) ==
  {[f.cur_mapping EXCEPT ![p[1]] = p[2]] :
     p \in {q \in (DOMAIN f.cur_mapping) \X Range(PyLen(f.instance2)) :
              /\ q[2] \in f.candidate_mappings[q[1]]
              /\ \A k \in DOMAIN f.cur_mapping : f.cur_mapping[k] # q[2]}}

\* the mappings one SWAP away from the current mapping of a call
SwapNeighbours(f) ==
  {[f.cur_mapping EXCEPT ![p[1]] = f.cur_mapping[p[2]], ![p[2]] = f.cur_mapping[p[1]]] :
     p \in {q \in (DOMAIN f.cur_mapping) \X (DOMAIN f.cur_mapping) : q[1] < q[2]}}

Neighbours(f) == MoveNeighbours(f) \cup SwapNeighbours(f)

\* C27: a pass of the while loop scores every MOVE and every SWAP neighbour
\* of the current mapping; the step it takes leads to a neighbour of the
\* largest score and its gain is the rise of the score; the pass that ends the
\* restart leaves a mapping none of whose neighbours scores more than the
\* threshold above it
BestStepC27 ==
  [][\A t \in DOMAIN fr \cap DOMAIN fr' :
       fr[t].pc = "climb" /\ fr'[t] # fr[t] =>
         /\ Neighbours(fr[t]) \subseteq DOMAIN match_triple_dict'
         /\ IF fr'[t].pc = "climb"
            THEN /\ fr'[t].cur_mapping \in Neighbours(fr[t])
                 /\ \A n \in Neighbours(fr[t]) :
                      ScoreOf(n, fr[t].weight_dict)
                        <= ScoreOf(fr'[t].cur_mapping, fr[t].weight_dict)
                 /\ fr'[t].gain = ScoreOf(fr'[t].cur_mapping, fr[t].weight_dict)
                                    - ScoreOf(fr[t].cur_mapping, fr[t].weight_dict)
                 /\ fr'[t].gain > GainThreshold
            ELSE /\ fr'[t].cur_mapping = fr[t].cur_mapping
                 /\ \A n \in Neighbours(fr[t]) :
                      ScoreOf(n, fr[t].weight_dict)
                        - ScoreOf(fr[t].cur_mapping, fr[t].weight_dict) <= GainThreshold]_vars

\* a restart that took a step has ended on a mapping that has both a MOVE and
\* a SWAP neighbour
LocalOptimumC27 ==
  \E t \in DOMAIN fr :
    /\ fr[t].pc = "init" /\ fr[t].i > 0 /\ fr[t].steps > 0
    /\ MoveNeighbours(fr[t]) # {}
    /\ SwapNeighbours(fr[t]) \ {fr[t].cur_mapping} # {}

\* ------------------------------------------------------------------------
\* C28
\* ------------------------------------------------------------------------

\* the mapping that maps no node
AllUnmapped(f) == [k \in Range(PyLen(f.instance1)) |-> -1]

\* C28: the best score starts at 0 with the all -1 mapping; the end of a
\* restart raises it to the restart's final score when that score is larger
\* and then takes the restart's final mapping, and leaves both alone otherwise
\* (so that of several restarts with the largest score the first one's mapping
\* stays); no other step changes them; what is returned is a score of 0 with
\* the all -1 mapping, or a positive score with a mapping that has that score
BestOfRestartsC28 ==
  [][\A t \in DOMAIN fr \cap DOMAIN fr' :
       /\ fr[t].pc = "pool" /\ fr'[t].pc = "init" =>
            fr'[t].best_match_num = 0 /\ fr'[t].best_mapping = AllUnmapped(fr[t])
       /\ fr[t].pc = "climb" /\ fr'[t].pc = "init" =>
            /\ fr'[t].best_match_num >= fr[t].best_match_num
            /\ fr'[t].best_match_num >= fr[t].match_num
            /\ fr'[t].best_match_num \in {fr[t].best_match_num, fr[t].match_num}
            /\ fr'[t].best_mapping = IF fr[t].match_num > fr[t].best_match_num
                                     THEN fr[t].cur_mapping
                                     ELSE fr[t].best_mapping
       /\ fr[t].pc \in {"init", "climb"} /\ ~ (fr[t].pc = "climb" /\ fr'[t].pc = "init") =>
            /\ fr'[t].best_match_num = fr[t].best_match_num
            /\ fr'[t].best_mapping = fr[t].best_mapping
       /\ fr'[t].pc = "done" =>
            IF fr'[t].best_match_num = 0
            THEN fr'[t].best_mapping = AllUnmapped(fr[t])
            ELSE /\ fr'[t].best_match_num > 0
                 /\ fr'[t].best_match_num
                      = ScoreOf(fr'[t].best_mapping, fr[t].weight_dict)]_vars

\* a later restart has ended with the best score on another mapping than the
\* one of the restart that reached that score first
TiedRestartC28 ==
  \E t \in DOMAIN fr :
    /\ fr[t].pc = "init" /\ fr[t].i >= 2
    /\ fr[t].match_num = fr[t].best_match_num /\ fr[t].best_match_num > 0
    /\ fr[t].cur_mapping # fr[t].best_mapping

\* ------------------------------------------------------------------------
\* C29
\* ------------------------------------------------------------------------

\* the candidates of node i that carry the concept of node i and that p gives
\* to no node before i
FreeSameConcept(f, p, i) ==
  {j \in f.candidate_mappings[i] :
     /\ f.instance2[j][3] = f.instance1[i][3]
     /\ \A k \in DOMAIN p : k < i => p[k] # j}

\* p is the outcome of the first pass: in the order of the nodes, node i gets
\* the first free candidate with its concept, and -1 when there is none
IsConceptPass(f, p) ==
  \A i \in DOMAIN p :
    IF FreeSameConcept(f, p, i) = {} THEN p[i] = -1
    ELSE /\ p[i] \in FreeSameConcept(f, p, i)
         /\ \A j \in FreeSameConcept(f, p, i) : p[i] <= j

\* m is an outcome of the second pass on p: the nodes p mapped keep their
\* node; every other node has a candidate of its own that no other node has,
\* or -1 when each of its candidates is the node of some other node
IsFilled(f, p, m) ==
  \A i \in DOMAIN m :
    IF p[i] # -1 THEN m[i] = p[i]
    ELSE \/ /\ m[i] \in f.candidate_mappings[i]
            /\ \A k \in DOMAIN m : k # i => m[k] # m[i]
         \/ /\ m[i] = -1
            /\ \A j \in f.candidate_mappings[i] : \E k \in DOMAIN m : k # i /\ m[k] = j

\* the state of a call right after smart_init_mapping gave the initial
\* mapping of start 0
SmartStarted(f) == f.pc = "climb" /\ f.i = 0 /\ f.steps = 0

\* C29: the mapping smart_init_mapping returns is a first pass in node order
\* that gives each node the first unused candidate with its concept, filled
\* with unused candidates for the nodes that pass left unmapped, a node staying
\* -1 only when all its candidates are used
SmartInitC29 ==
  \A t \in DOMAIN fr :
    SmartStarted(fr[t]) =>
      \E p \in [DOMAIN fr[t].cur_mapping -> Range(PyLen(fr[t].instance2)) \cup {-1}] :
        IsConceptPass(fr[t], p) /\ IsFilled(fr[t], p, fr[t].cur_mapping)

\* smart_init_mapping has mapped one node by its concept and has given another
\* node, which has no candidate with its concept, a candidate at random
ConceptAndRandomC29 ==
  \E t \in DOMAIN fr :
    /\ SmartStarted(fr[t])
    /\ \E i, k \in DOMAIN fr[t].cur_mapping :
         /\ fr[t].cur_mapping[i] # -1 /\ fr[t].cur_mapping[k] # -1
         /\ fr[t].instance2[fr[t].cur_mapping[i]][3] = fr[t].instance1[i][3]
         /\ \A j \in DOMAIN fr[t].instance2 : fr[t].instance2[j][3] # fr[t].instance1[k][3]

\* ------------------------------------------------------------------------
\* C30
\* ------------------------------------------------------------------------

\* the state of a call right after random_init_mapping gave the initial
\* mapping of a start other than start 0
RandomStarted(f) == f.pc = "climb" /\ f.i >= 1 /\ f.steps = 0

\* C30: in a mapping random_init_mapping returns every node has a candidate
\* of its own that no earlier node has, or -1; and it has -1 only when each of
\* its candidates (if it has any) is the node of an earlier node
RandomInitC30 ==
  \A t \in DOMAIN fr :
    RandomStarted(fr[t]) =>
      \A i \in DOMAIN fr[t].cur_mapping :
        \/ /\ fr[t].cur_mapping[i] \in fr[t].candidate_mappings[i]
           /\ \A k \in DOMAIN fr[t].cur_mapping : k < i => fr[t].cur_mapping[k] # fr[t].cur_mapping[i]
        \/ /\ fr[t].cur_mapping[i] = -1
           /\ \A j \in fr[t].candidate_mappings[i] :
                \E k \in DOMAIN fr[t].cur_mapping : k < i /\ fr[t].cur_mapping[k] = j

\* random_init_mapping has left a node that has candidates at -1, an earlier
\* node having taken them
CrowdedOutC30 ==
  \E t \in DOMAIN fr :
    /\ RandomStarted(fr[t])
    /\ \E i \in DOMAIN fr[t].cur_mapping :
         fr[t].cur_mapping[i] = -1 /\ fr[t].candidate_mappings[i] # {}

\* ------------------------------------------------------------------------

\* the node pairs of the call f
NodePairs(f) == Range(PyLen(f.instance1)) \X Range(PyLen(f.instance2))

\* the pairs (x, y) of a relation triple of graph 1 and a relation triple of
\* graph 2 whose labels match (compute_pool compares them in lower case)
LabelMatches(f) ==
  {xy \in (DOMAIN f.relation1) \X (DOMAIN f.relation2) :
     Lower(f.relation1[xy[1]][1]) = Lower(f.relation2[xy[2]][1])}

\* P = (s1, s2) of the pair xy of relation triples
SourcePair(f, xy) == <<f.relation1[xy[1]][2], f.relation2[xy[2]][2]>>

\* Q = (t1, t2) of the pair xy of relation triples
TargetPair(f, xy) == <<f.relation1[xy[1]][3], f.relation2[xy[2]][3]>>

\* the label-matching pairs whose endpoint alignments are p and q, p # q
Joining(f, p, q) ==
  {xy \in LabelMatches(f) :
     \/ SourcePair(f, xy) = p /\ TargetPair(f, xy) = q
     \/ SourcePair(f, xy) = q /\ TargetPair(f, xy) = p}

\* the label-matching pairs with P = Q = p
SelfLoops(f, p) ==
  {xy \in LabelMatches(f) : SourcePair(f, xy) = p /\ TargetPair(f, xy) = p}

\* the pairs (x, y) of an attribute triple of node p[1] of graph 1 and an
\* attribute triple of node p[2] of graph 2
AttributePairs(f, p) ==
  {xy \in (DOMAIN f.attribute1) \X (DOMAIN f.attribute2) :
     f.attribute1[xy[1]][2] = p[1] /\ f.attribute2[xy[2]][2] = p[2]}

\* the two attribute triples have the same label and the same value
SameAttribute(a1, a2) == Lower(a1[1]) = Lower(a2[1]) /\ Lower(a1[3]) = Lower(a2[3])

\* the two attribute triples are both labelled top and their values differ
TopPair(a1, a2) ==
  /\ Lower(a1[1]) = TOP_LABEL
  /\ Lower(a2[1]) = TOP_LABEL
  /\ Lower(a1[3]) # Lower(a2[3])

\* what a pair of attribute triples is to add to SelfScore
AttributeAmount(a1, a2, c) ==
  IF SameAttribute(a1, a2) THEN One
  ELSE IF TopPair(a1, a2) THEN SimOf(a1[3], a2[3], c)
  ELSE 0

\* the sum of the amounts of the attribute pairs of the node pair p
AttributePart(f, p, c) ==
  SumFn(AttributePairs(f, p),
        [xy \in (DOMAIN f.attribute1) \X (DOMAIN f.attribute2) |->
           AttributeAmount(f.attribute1[xy[1]], f.attribute2[xy[2]], c)])

\* the weighted similarity of the concepts of the node pair p
ConceptPart(f, p, c) ==
  IF c.weighting_scheme = "concept" THEN 3 * ConceptSim(f, p, c)
  ELSE IF c.weighting_scheme = "structure" THEN (ConceptSim(f, p, c) * 3333) \div 10000
  ELSE ConceptSim(f, p, c)

\* what the relation loop added to SelfScore of p
SelfLoopPart(f, p, c) ==
  SelfScore(f.weight_dict, p) - ConceptPart(f, p, c) - AttributePart(f, p, c)

\* the relation entries of the pool of f, each unordered pair counted once,
\* plus the self-loop additions
RelationTotal(f, c) ==
  SumFn({pq \in NodePairs(f) \X NodePairs(f) : pq[1] # pq[2]},
        [pq \in NodePairs(f) \X NodePairs(f) |->
           RelCount(f.weight_dict, pq[1], pq[2])]) \div 2
  + SumFn(NodePairs(f), [p \in NodePairs(f) |-> SelfLoopPart(f, p, c)])

\* the pool of the call f holds what the relation loop is to put there
RelationPool(f, c) ==
  /\ \A xy \in LabelMatches(f) :
       /\ SourcePair(f, xy)[2] \in f.candidate_mappings[SourcePair(f, xy)[1]]
       /\ TargetPair(f, xy)[2] \in f.candidate_mappings[TargetPair(f, xy)[1]]
  /\ \A p \in DOMAIN f.weight_dict : DOMAIN f.weight_dict[p].rel \subseteq NodePairs(f)
  /\ \A p \in NodePairs(f) :
       /\ SelfLoopPart(f, p, c) = One * Cardinality(SelfLoops(f, p))
       /\ p \in DOMAIN f.weight_dict => p \notin DOMAIN f.weight_dict[p].rel
       /\ \A q \in NodePairs(f) \ {p} :
            /\ RelCount(f.weight_dict, p, q) = One * Cardinality(Joining(f, p, q))
            /\ RelCount(f.weight_dict, q, p) = One * Cardinality(Joining(f, p, q))
            /\ Joining(f, p, q) = {} =>
                 p \notin DOMAIN f.weight_dict \/ q \notin DOMAIN f.weight_dict[p].rel
  /\ RelationTotal(f, c) = One * Cardinality(LabelMatches(f))

\* C31: for every pair of relation triples with matching labels compute_pool
\* puts s2 into C[s1] and t2 into C[t1]; with P = (s1, s2) and Q = (t1, t2) it
\* adds 1 to W[P][Q] and to W[Q][P] when P # Q, and 1 to SelfScore of P with no
\* relation entry when P = Q; the relation entries counted once plus the
\* self-loop additions add up to the number of label-matching pairs
RelationPoolC31 ==
  \A t \in DOMAIN fr : fr[t].pc = "init" => RelationPool(fr[t], args)

\* compute_pool has met a self-loop pair, and two relation pairs that join the
\* same two node pairs
SelfLoopAndEntryC31 ==
  \E t \in DOMAIN fr :
    /\ fr[t].pc = "init"
    /\ \E p \in NodePairs(fr[t]) :
         /\ SelfLoops(fr[t], p) # {}
         /\ \E q \in NodePairs(fr[t]) \ {p} : Cardinality(Joining(fr[t], p, q)) = 2

\* ------------------------------------------------------------------------

\* what the attribute loop added to SelfScore of p
AttributeLoopPart(f, p, c) ==
  SelfScore(f.weight_dict, p) - ConceptPart(f, p, c) - One * Cardinality(SelfLoops(f, p))

\* the candidates the instance loop and the relation loop give node i
OtherCandidates(f, i) ==
  {j \in Range(PyLen(f.instance2)) :
     \/ Lower(f.instance1[i][1]) = Lower(f.instance2[j][1])
     \/ \E xy \in LabelMatches(f) : <<i, j>> \in {SourcePair(f, xy), TargetPair(f, xy)}}

Kept(before, after) ==
  \A m \in DOMAIN before : m \in DOMAIN after /\ after[m] = before[m]

\* the writes to the memo that the call f made on the way to the call g
NewWrites(f, g) == g.log \ f.log

\* C33: compute_match, move_gain and swap_gain write to the memo only a mapping
\* that the memo does not hold; so within a call of get_best_match an entry of
\* the memo is never overwritten or removed, and the score a start or a step
\* has for its mapping is the score the memo holds for it
MemoOnceC33 ==
  [][\A t \in DOMAIN fr :
       /\ Kept(match_triple_dict, match_triple_dict')
       /\ \A e \in NewWrites(fr[t], fr'[t]) :
            e.key \notin DOMAIN match_triple_dict /\ e.key \in DOMAIN match_triple_dict'
       /\ \A m \in (DOMAIN match_triple_dict') \ (DOMAIN match_triple_dict) :
            \E e \in NewWrites(fr[t], fr'[t]) : e.key = m
       /\ fr'[t].pc = "climb" =>
            /\ fr'[t].cur_mapping \in DOMAIN match_triple_dict'
            /\ match_triple_dict'[fr'[t].cur_mapping] = fr'[t].match_num]_vars

\* a later start begins on a mapping whose entry move_gain or swap_gain wrote
\* in an earlier start
StartOnStoredC33 ==
  \E t \in DOMAIN fr :
    /\ fr[t].pc = "climb"
    /\ fr[t].i >= 1
    /\ fr[t].steps = 0
    /\ \E e \in fr[t].log :
         e.key = fr[t].cur_mapping /\ e.by \in {"move_gain", "swap_gain"}

\* ------------------------------------------------------------------------

\* C34: within a restart no mapping is visited twice: the mappings the start
\* has been at are one more than its accepted steps; and every call of
\* get_best_match comes to its return
TerminatesC34 ==
  /\ [](\A t \in DOMAIN fr :
          fr[t].pc = "climb" => Cardinality(fr[t].seen) = fr[t].steps + 1)
  /\ <>(\A t \in DOMAIN fr : fr[t].pc = "done")

\* get_best_match has returned after a last restart that accepted a step
ReturnedAfterClimbC34 ==
  \E t \in DOMAIN fr :
    /\ fr[t].pc = "done"
    /\ fr[t].i >= 2
    /\ fr[t].steps >= 1
    /\ Cardinality(fr[t].seen) >= 2

\* ------------------------------------------------------------------------

\* whether the fraction x lies in [0, 1]
InUnit(x) == x.den > 0 /\ 0 <= x.num /\ x.num <= x.den

\* whether precision, recall and F of the record r of compute_f lie in [0, 1]
ScoresInUnit(r) == InUnit(r.precision) /\ InUnit(r.recall) /\ InUnit(r.f_score)

\* C35: the match count get_best_match returns exceeds neither the triple
\* count of graph 1 nor that of graph 2, so precision, recall and F of
\* compute_f are in [0, 1]
BoundedMatchC35 ==
  \A t \in DOMAIN fr :
    fr[t].pc = "done" =>
      /\ fr[t].best_match_num <= One * TestTripleNum(fr[t])
      /\ fr[t].best_match_num <= One * GoldTripleNum(fr[t])
      /\ ScoresInUnit(compute_f(fr[t].best_match_num, TestTripleNum(fr[t]),
                                GoldTripleNum(fr[t])))

\* ------------------------------------------------------------------------

\* the score of the mapping m by the weight dictionary alone: SelfScore of the
\* mapped node pairs and the relation count of each two of them, once
FromScratch(m, weight_dict) == SelfSum(m, weight_dict) + PairSum(m, weight_dict)

\* C36: the score get_best_match returns is the score that the weight
\* dictionary gives the mapping it returns, whatever the random restarts drew
ReturnedScoreC36 ==
  \A t \in DOMAIN fr :
    fr[t].pc = "done" =>
      fr[t].best_match_num = FromScratch(fr[t].best_mapping, fr[t].weight_dict)

\* get_best_match has returned a mapping with a relation match whose score
\* was built from a gain: the memo entry is one move_gain or swap_gain wrote
ReturnedFromGainC36 ==
  \E t \in DOMAIN fr :
    /\ fr[t].pc = "done"
    /\ PairSum(fr[t].best_mapping, fr[t].weight_dict) > 0
    /\ \E e \in fr[t].log :
         e.key = fr[t].best_mapping /\ e.by \in {"move_gain", "swap_gain"}

\* ------------------------------------------------------------------------

\* every list of the heap before the step has the same items after it
ListsKept(before, after) ==
  /\ Len(after) >= Len(before)
  /\ \A r \in 1 .. Len(before) : after[r] = before[r]

\* C37: compute_match and get_best_gain (with its calls of move_gain and
\* swap_gain) leave the items of the mapping list passed to them as they were,
\* and the weight dictionary and the candidate lists as well; the list
\* get_best_gain returns is a new one; only the memo changes
FrameC37 ==
  [][/\ ListsKept(sim.heap, sim'.heap)
     /\ sim'.weight_dict = sim.weight_dict
     /\ sim'.candidate_mappings = sim.candidate_mappings
     /\ sim.pc = "climb" => sim'.result > Len(sim.heap) /\ sim'.arg = sim.mapping
     /\ UNCHANGED <<iteration_num, single_score, pr_flag, args, fr, drv>>]_vars

\* get_best_gain has returned a list whose items differ from those of the list
\* it was given, by a swap
SwappedCopyC37 ==
  /\ sim.pc = "climb"
  /\ sim.result # 0
  /\ \E i, j \in DOMAIN sim.heap[sim.arg] :
       /\ i # j
       /\ sim.heap[sim.arg][i] # sim.heap[sim.arg][j]
       /\ sim.heap[sim.result][i] = sim.heap[sim.arg][j]
       /\ sim.heap[sim.result][j] = sim.heap[sim.arg][i]

\* ------------------------------------------------------------------------

\* C38: maybe_sim is symmetric: under one vocabulary and one configuration the
\* call on (a, b) returns what the call on (b, a) returns
SymmetricC38 ==
  sim.pc = "out" =>
    sim.result = maybe_sim(sim.b, sim.a, sim.vecs, sim.cutoff, sim.diffsense,
                           sim.simfun, sim.mwp)

\* maybe_sim returned a graded similarity of two labels of which only the
\* first has a sense suffix
OneSensedC38 ==
  /\ sim.pc = "out"
  /\ Truthy(WoSense(sim.a))
  /\ ~ Truthy(WoSense(sim.b))
  /\ ~ SenseRuleFires(sim.a, sim.b, WoSense(sim.a), WoSense(sim.b))
  /\ 0 < sim.result
  /\ sim.result < One


====
